---- MODULE Spec2Model ----
(***************************************************************************)
(* A model of the coin-cost portfolio tracker: the valuation functions of  *)
(* utils/cryptoUtils.js and hooks/usePortfolio.js, the ledger operations   *)
(* of the usePortfolio hook, and the market-data client of lib/api.js with *)
(* the caching proxy route in front of the primary provider.               *)
(*                                                                         *)
(* JavaScript numbers are modelled as exact rationals <<n, d>> in lowest   *)
(* terms (d > 0) together with the IEEE-754 specials the code can produce: *)
(* Infinity = <<1, 0>>, -Infinity = <<-1, 0>>, NaN = <<0, 0>>.  Rounding   *)
(* error and the sign of zero are not modelled.  A property that is absent *)
(* from an object (undefined) is <<0, -1>>, and null is <<0, -2>>.         *)
(***************************************************************************)
EXTENDS Integers, Sequences, FiniteSets, Bags, TLC

VARIABLES
    \* ---- valuation of one transaction list (pure functions)
    vTxs,          \* the transaction list being valued
    vPrice,        \* the current price it is valued at
    vRefresh,      \* the position computed by updatePortfolioCoin, or NoResult
    vImport,       \* the position computed by processPortfolioData, or NoResult
    \* ---- the usePortfolio hook
    portfolio,     \* the hook's state (the in-memory portfolio)
    storage,       \* localStorage["crypto-portfolio"]: <<>> or <<portfolio>>
    inflight,      \* initial load and refreshes awaiting their quotes
    nextTxId,      \* stands for uuidv4(): the next fresh transaction id
    calls,         \* the number of calls made to the hook's operations
    expected,      \* history: the mutations applied in call order
    prevDone,      \* history: the completed refresh before the last one
    lastDone,      \* history: the last completed refresh
    \* ---- importPortfolio
    imp,           \* the call of importPortfolio: its position, input, result
    \* ---- the request limiters of lib/api.js and of the proxy route
    now,           \* Date.now(), in milliseconds
    ticks,         \* the number of times the clock was advanced
    isProduction,  \* the build: requests go through the proxy route, or direct
    limiter,       \* the counters and windows of the two limiters
    timers,        \* the pending setTimeout calls of waiting requests (a bag)
    rejected,      \* provider calls that will be answered with 429 (a bag)
    callLog,       \* history: times of the provider calls of the last minute
    issued,        \* the number of calls of rateLimitedRequest and of 429s
    \* ---- fetching the quote of a coin: lib/api.js and the proxy route
    callers,       \* the calls of getMultipleCryptocurrencyDetails
    cache,         \* cache.marketData and cache.coinDetails of lib/api.js
    proxyCache,    \* the proxy route's cache: the fresh and the stale copy
    failures,      \* the number of failures the provider has answered with
    \* ---- the list of top coins: lib/api.js, getTopCryptocurrencies
    topCoins,      \* cache.topCoins
    top,           \* the call of getTopCryptocurrencies: position, result
    \* ---- the details of a coin: lib/api.js, getCryptocurrencyDetails
    details,       \* the calls of getCryptocurrencyDetails: position, result
    \* ---- the retry executor: lib/api.js, fetchWithRetry
    retryCalls,    \* the calls of fetchWithRetry made by the operations
    frames,        \* the invocations of fetchWithRetry that reached line 106
    retryCache,    \* the fields of cache that fetchWithRetry reads and writes
    retryTimers,   \* the pending removal timers of line 142: their due times
    retryFailures  \* the number of fetcher invocations that have failed

valVars == <<vTxs, vPrice, vRefresh, vImport>>
hookVars ==
    <<portfolio, storage, inflight, nextTxId, calls, expected, prevDone, lastDone>>

impVars == <<imp>>
rateVars ==
    <<now, ticks, isProduction, limiter, timers, rejected, callLog, issued>>

fetchVars == <<callers, cache, proxyCache, failures>>

topVars == <<topCoins, top>>

detailVars == <<details>>

retryVars == <<retryCalls, frames, retryCache, retryTimers, retryFailures>>

vars ==
    <<valVars, hookVars, impVars, rateVars, fetchVars, topVars, detailVars,
      retryVars>>

-----------------------------------------------------------------------------
(* Numbers                                                                 *)

NaN == <<0, 0>>
Infinity == <<1, 0>>
NegInfinity == <<-1, 0>>
Undefined == <<0, -1>>
\* null: what JSON.stringify writes for NaN and the infinities
Null == <<0, -2>>

Abs(n) == IF n < 0 THEN -n ELSE n
Sign(n) == IF n < 0 THEN -1 ELSE IF n > 0 THEN 1 ELSE 0

RECURSIVE GCD(_, _)
GCD(a, b) == IF b = 0 THEN a ELSE GCD(b, a % b)

Norm(n, d) ==
    IF d = 0 THEN <<Sign(n), 0>>
    ELSE LET g == GCD(Abs(n), Abs(d))
             s == IF d < 0 THEN -1 ELSE 1
         IN  <<(s * n) \div g, (s * d) \div g>>

Num(n) == <<n, 1>>
Zero == Num(0)

\* ToNumber: undefined converts to NaN and null to 0 in arithmetic
ToNum(x) == IF x = Undefined THEN NaN ELSE IF x = Null THEN <<0, 1>> ELSE x

IsNaN(x) == x = NaN
IsFinite(x) == x[2] > 0

Neg(x) == <<-x[1], x[2]>>

Add(a, b) ==
    LET x == ToNum(a)
        y == ToNum(b)
    IN  IF IsNaN(x) \/ IsNaN(y) THEN NaN
        ELSE IF ~IsFinite(x) /\ ~IsFinite(y) THEN (IF x = y THEN x ELSE NaN)
        ELSE IF ~IsFinite(x) THEN x
        ELSE IF ~IsFinite(y) THEN y
        ELSE Norm(x[1] * y[2] + y[1] * x[2], x[2] * y[2])

Sub(a, b) == Add(a, Neg(ToNum(b)))

Mul(a, b) ==
    LET x == ToNum(a)
        y == ToNum(b)
    IN  IF IsNaN(x) \/ IsNaN(y) THEN NaN
        ELSE IF ~IsFinite(x) \/ ~IsFinite(y)
             THEN <<Sign(x[1]) * Sign(y[1]), 0>>
        ELSE LET g1 == GCD(Abs(x[1]), y[2])
                 g2 == GCD(Abs(y[1]), x[2])
             IN  IF x[1] = 0 \/ y[1] = 0 THEN Zero
                 ELSE Norm((x[1] \div g1) * (y[1] \div g2),
                           (x[2] \div g2) * (y[2] \div g1))

Div(a, b) ==
    LET x == ToNum(a)
        y == ToNum(b)
    IN  IF IsNaN(x) \/ IsNaN(y) THEN NaN
        ELSE IF ~IsFinite(x) /\ ~IsFinite(y) THEN NaN
        ELSE IF ~IsFinite(y) THEN Zero
        ELSE IF y[1] = 0 THEN <<Sign(x[1]), 0>>
        ELSE Mul(x, Norm(y[2], y[1]))

\* a > b; every comparison with NaN is false
Gt(a, b) ==
    LET x == ToNum(a)
        y == ToNum(b)
    IN  IF IsNaN(x) \/ IsNaN(y) THEN FALSE
        ELSE IF ~IsFinite(x) /\ ~IsFinite(y) THEN x[1] > y[1]
        ELSE x[1] * (IF IsFinite(y) THEN y[2] ELSE 0)
               > y[1] * (IF IsFinite(x) THEN x[2] ELSE 0)

Lt(a, b) == Gt(b, a)

\* Math.max(0, x)
MathMax0(x) == IF IsNaN(ToNum(x)) THEN NaN ELSE IF Gt(x, Zero) THEN ToNum(x) ELSE Zero

\* x || 0: undefined, null, NaN and 0 are falsy
OrZero(x) == IF x \in {Undefined, Null, NaN, Zero} THEN Zero ELSE x

\* JSON.parse(JSON.stringify(x)) of a number
JsonNumber(x) == IF x \in {NaN, Infinity, NegInfinity} THEN Null ELSE x

-----------------------------------------------------------------------------
(* Valuation: utils/cryptoUtils.js                                         *)

RECURSIVE HoldingsFrom(_, _, _)
HoldingsFrom(transactions, i, total) ==
    IF i > Len(transactions) THEN total
    ELSE HoldingsFrom(transactions, i + 1,
            IF transactions[i].type = "buy"
            THEN Add(total, transactions[i].amount)
            ELSE Sub(total, transactions[i].amount))

calculateHoldings(transactions) == HoldingsFrom(transactions, 1, Zero)

RECURSIVE SumBuysFrom(_, _, _, _)
SumBuysFrom(transactions, i, sum, withPrice) ==
    IF i > Len(transactions) THEN sum
    ELSE SumBuysFrom(transactions, i + 1,
            IF transactions[i].type = "buy"
            THEN Add(sum, IF withPrice
                          THEN Mul(transactions[i].price, transactions[i].amount)
                          ELSE transactions[i].amount)
            ELSE sum,
            withPrice)

\* a variant that takes the price of the first buy as the average
calculateAverageBuyPriceOfFirstBuy(transactions) ==
    IF \A i \in 1..Len(transactions) : transactions[i].type # "buy" THEN Zero
    ELSE transactions[CHOOSE i \in 1..Len(transactions) :
                         /\ transactions[i].type = "buy"
                         /\ \A j \in 1..(i - 1) :
                               transactions[j].type # "buy"].price

calculateAverageBuyPrice(transactions) ==
    IF \A i \in 1..Len(transactions) : transactions[i].type # "buy" THEN Zero
    ELSE LET totalCost == SumBuysFrom(transactions, 1, Zero, TRUE)
             totalAmount == SumBuysFrom(transactions, 1, Zero, FALSE)
         IN  IF Gt(totalAmount, Zero) THEN Div(totalCost, totalAmount) ELSE Zero

RECURSIVE InvestmentFrom(_, _, _)
InvestmentFrom(transactions, i, total) ==
    IF i > Len(transactions) THEN total
    ELSE InvestmentFrom(transactions, i + 1,
            IF transactions[i].type = "buy"
            THEN Add(total, Mul(transactions[i].price, transactions[i].amount))
            ELSE Sub(total, Mul(transactions[i].price, transactions[i].amount)))

calculateTotalInvestment(transactions) == InvestmentFrom(transactions, 1, Zero)

calculateCurrentValue(holdings, currentPrice) == Mul(holdings, currentPrice)

calculateProfitLoss(currentValue, totalInvestment) == Sub(currentValue, totalInvestment)

calculateProfitLossPercentage(profitLoss, totalInvestment) ==
    IF Gt(totalInvestment, Zero)
    THEN Mul(Div(profitLoss, totalInvestment), Num(100))
    ELSE Zero

updatePortfolioCoin(coin, cryptoData) ==
    LET holdings == calculateHoldings(coin.transactions)
        averageBuyPrice == calculateAverageBuyPrice(coin.transactions)
        totalInvestment == calculateTotalInvestment(coin.transactions)
        currentPrice == cryptoData.current_price
        currentValue == calculateCurrentValue(holdings, currentPrice)
        profitLoss == calculateProfitLoss(currentValue, totalInvestment)
        profitLossPercentage ==
            calculateProfitLossPercentage(profitLoss, totalInvestment)
    IN  [coin EXCEPT !.symbol = cryptoData.symbol,
                     !.holdings = holdings,
                     !.averageBuyPrice = averageBuyPrice,
                     !.totalInvestment = totalInvestment,
                     !.currentPrice = currentPrice,
                     !.currentValue = currentValue,
                     !.profitLoss = profitLoss,
                     !.profitLossPercentage = profitLossPercentage]

RECURSIVE SumFrom(_, _, _)
\* values.reduce((sum, v) => sum + v, 0)
SumFrom(values, i, sum) ==
    IF i > Len(values) THEN sum
    ELSE SumFrom(values, i + 1, Add(sum, values[i]))

Totals(coins, totalInvestment, totalValue) ==
    LET totalProfitLoss == Sub(totalValue, totalInvestment)
    IN  [coins |-> coins,
         totalInvestment |-> totalInvestment,
         totalValue |-> totalValue,
         totalProfitLoss |-> totalProfitLoss,
         totalProfitLossPercentage |->
            IF Gt(totalInvestment, Zero)
            THEN Mul(Div(totalProfitLoss, totalInvestment), Num(100))
            ELSE Zero]

\* a variant that starts the sums from the totals already stored
updatePortfolioAccumulating(pf, cryptoDataMap) ==
    LET updatedCoins ==
            [i \in 1..Len(pf.coins) |->
                LET coin == pf.coins[i]
                IN  IF coin.id \notin DOMAIN cryptoDataMap THEN coin
                    ELSE updatePortfolioCoin(coin, cryptoDataMap[coin.id])]
    IN  Totals(updatedCoins,
               SumFrom([i \in 1..Len(updatedCoins) |->
                            updatedCoins[i].totalInvestment], 1, pf.totalInvestment),
               SumFrom([i \in 1..Len(updatedCoins) |->
                            updatedCoins[i].currentValue], 1, pf.totalValue))

updatePortfolio(pf, cryptoDataMap) ==
    LET updatedCoins ==
            [i \in 1..Len(pf.coins) |->
                LET coin == pf.coins[i]
                IN  IF coin.id \notin DOMAIN cryptoDataMap THEN coin
                    ELSE updatePortfolioCoin(coin, cryptoDataMap[coin.id])]
    IN  Totals(updatedCoins,
               SumFrom([i \in 1..Len(updatedCoins) |->
                            updatedCoins[i].totalInvestment], 1, Zero),
               SumFrom([i \in 1..Len(updatedCoins) |->
                            updatedCoins[i].currentValue], 1, Zero))

-----------------------------------------------------------------------------
(* Valuation on import: hooks/usePortfolio.js, processPortfolioData        *)

RECURSIVE ProcessTxFrom(_, _, _)
\* acc = [h, inv, buy]: totalHoldings, totalInvestment, totalBuyAmount
ProcessTxFrom(transactions, i, acc) ==
    IF i > Len(transactions) THEN acc
    ELSE LET tx == transactions[i]
             amount == OrZero(tx.amount)
             price == OrZero(tx.price)
         IN  ProcessTxFrom(transactions, i + 1,
                IF tx.type = "buy"
                THEN [h |-> Add(acc.h, amount),
                      inv |-> Add(acc.inv, Mul(amount, price)),
                      buy |-> Add(acc.buy, amount)]
                ELSE IF tx.type = "sell"
                THEN LET totalHoldings == Sub(acc.h, amount)
                     IN  [h |-> totalHoldings,
                          inv |-> MathMax0(Sub(acc.inv,
                                     Mul(Div(amount, totalHoldings), acc.inv))),
                          buy |-> acc.buy]
                ELSE acc)

\* lines 484-508, given the sums over the transactions and the values
\* computed from them (each computed once, as in the code)
ProcessedCoin(coin, acc, averageBuyPrice, currentValue, profitLoss) ==
    [coin EXCEPT !.holdings = acc.h,
                 !.totalInvestment = acc.inv,
                 !.averageBuyPrice = averageBuyPrice,
                 !.currentValue = currentValue,
                 !.profitLoss = profitLoss,
                 !.profitLossPercentage =
                     IF Gt(acc.inv, Zero)
                     THEN Mul(Div(profitLoss, acc.inv), Num(100))
                     ELSE Zero]

\* lines 488-491
ValuedCoin(coin, acc, currentValue) ==
    ProcessedCoin(coin, acc,
                  IF Gt(acc.buy, Zero) THEN Div(acc.inv, acc.buy) ELSE Zero,
                  currentValue,
                  Sub(currentValue, acc.inv))

\* lines 484-490
SummedCoin(coin, acc) ==
    ValuedCoin(coin, acc, Mul(acc.h, OrZero(coin.currentPrice)))

\* the callback of coins.map, lines 442-509
processCoin(coin) ==
    SummedCoin(coin, ProcessTxFrom(coin.transactions, 1,
                                   [h |-> Zero, inv |-> Zero, buy |-> Zero]))

\* lines 511-531
ProcessedTotals(processedCoins) ==
    Totals(processedCoins,
           SumFrom([i \in 1..Len(processedCoins) |->
                        OrZero(processedCoins[i].totalInvestment)], 1, Zero),
           SumFrom([i \in 1..Len(processedCoins) |->
                        OrZero(processedCoins[i].currentValue)], 1, Zero))

processPortfolioData(coins) ==
    ProcessedTotals([i \in 1..Len(coins) |-> processCoin(coins[i])])

-----------------------------------------------------------------------------
(* Positions and portfolios                                                *)

\* a field that the object does not have
Missing == "<undefined>"

createEmptyPortfolio ==
    [coins |-> <<>>,
     totalInvestment |-> Zero,
     totalValue |-> Zero,
     totalProfitLoss |-> Zero,
     totalProfitLossPercentage |-> Zero]

\* the position addTransaction creates for a coin it does not hold yet
NewCoin(coinId, transaction) ==
    [id |-> coinId,
     coinGeckoId |-> Missing,
     symbol |-> "",
     transactions |-> <<transaction>>,
     holdings |-> Zero,
     averageBuyPrice |-> Zero,
     totalInvestment |-> Zero,
     currentPrice |-> Zero,
     currentValue |-> Zero,
     profitLoss |-> Zero,
     profitLossPercentage |-> Zero]

Tx(id, type, amount, price) ==
    [id |-> id, type |-> type, amount |-> amount, price |-> price]

\* JSON.parse(JSON.stringify(pf)): what a portfolio is after it went through
\* localStorage or an export file
JsonCoin(coin) ==
    [coin EXCEPT
        !.transactions = [i \in 1..Len(@) |->
                            [@[i] EXCEPT !.amount = JsonNumber(@),
                                         !.price = JsonNumber(@)]],
        !.holdings = JsonNumber(@),
        !.averageBuyPrice = JsonNumber(@),
        !.totalInvestment = JsonNumber(@),
        !.currentPrice = JsonNumber(@),
        !.currentValue = JsonNumber(@),
        !.profitLoss = JsonNumber(@),
        !.profitLossPercentage = JsonNumber(@)]

JsonPortfolio(pf) ==
    [coins |-> [i \in 1..Len(pf.coins) |-> JsonCoin(pf.coins[i])],
     totalInvestment |-> JsonNumber(pf.totalInvestment),
     totalValue |-> JsonNumber(pf.totalValue),
     totalProfitLoss |-> JsonNumber(pf.totalProfitLoss),
     totalProfitLossPercentage |-> JsonNumber(pf.totalProfitLossPercentage)]

\* the value localStorage holds after savePortfolioToStorage(pf)
savePortfolioToStorage(pf) == <<JsonPortfolio(pf)>>

-----------------------------------------------------------------------------
(* Specification SpecVal: the two valuations applied to one transaction    *)
(* list, drawn from all lists of at most MaxValTx transactions.            *)

MaxValTx == 3

ValAmounts == {Norm(2, 5), Num(1)}
ValPrices == {Num(10000), Num(12000)}
ValCurrentPrices == {Num(15000)}

ValTx == {Tx(0, ty, a, p) : ty \in {"buy", "sell"}, a \in ValAmounts, p \in ValPrices}

ValTxLists == UNION {[1..n -> ValTx] : n \in 0..MaxValTx}

NoResult == [computed |-> FALSE]

ValIdle ==
    /\ vTxs = <<>>
    /\ vPrice = Zero
    /\ vRefresh = NoResult
    /\ vImport = NoResult

\* importPortfolio has not been called
ImportIdle == imp = [pc |-> "idle"]

\* the module lib/api.js has just been loaded and nothing was requested
Now0 == 100000

NoCounts == [requestCount |-> 0, requestResetTime |-> 0]

RateIdle ==
    /\ now = Now0
    /\ ticks = 0
    /\ isProduction = FALSE
    /\ limiter = [client |-> NoCounts, proxy |-> NoCounts]
    /\ timers = EmptyBag
    /\ rejected = EmptyBag
    /\ callLog = <<>>
    /\ issued = [requests |-> 0, answers429 |-> 0]

\* nothing was fetched yet
IdleCaller ==
    [pc |-> "idle", due |-> 0, kind |-> "first", retries |-> 3, delay |-> 1000,
     startedAt |-> 0, reply |-> [status |-> 0], result |-> [kind |-> "none"],
     attempts |-> 0, providerCalls |-> 0, overlapped |-> FALSE,
     noCache |-> FALSE,
     saw429 |-> FALSE, staleAt429 |-> {}]

Callers == {1, 2}

FetchIdle ==
    /\ callers = [p \in Callers |-> IdleCaller]
    /\ cache = [marketData |-> <<>>, coinDetails |-> <<>>]
    /\ proxyCache = [fresh |-> <<>>, stale |-> <<>>]
    /\ failures = 0

\* getTopCryptocurrencies was never called: lib/api.js line 16
\* askedFor is not a field of the code: it keeps the limit of the call
\* that filled the cache
NoTopCoins ==
    [hasData |-> FALSE, data |-> <<>>, timestamp |-> 0, askedFor |-> 0]

IdleTop ==
    [pc |-> "idle", calls |-> 0, limit |-> 0, startedAt |-> 0,
     result |-> <<>>, from |-> "none", age |-> 0, gecko |-> "none",
     enriched |-> <<>>]

TopIdle ==
    /\ topCoins = NoTopCoins
    /\ top = IdleTop

\* getCryptocurrencyDetails was never called
IdleDetails ==
    [pc |-> "idle", kind |-> "first", primary |-> "none",
     secondary |-> "none", due |-> 0, staleCopy |-> FALSE, result |-> "none"]

DetailsIdle == details = [p \in Callers |-> IdleDetails]

\* lib/api.js, lines 24-28: fetchWithRetry was never called
NoRetryCache ==
    [pendingRequests |-> <<>>, lastRequestTime |-> <<>>, lastResults |-> <<>>,
     globalRequestCount |-> 0, lastGlobalRequestTime |-> 0]

RetryIdle ==
    /\ retryCalls = <<>>
    /\ frames = <<>>
    /\ retryCache = NoRetryCache
    /\ retryTimers = {}
    /\ retryFailures = 0

ValCoin(transactions, currentPrice) ==
    [NewCoin("bitcoin", Tx(0, "buy", Zero, Zero))
        EXCEPT !.transactions = transactions, !.currentPrice = currentPrice]

\* the hook is not mounted
HookIdle ==
    /\ portfolio = createEmptyPortfolio
    /\ storage = <<>>
    /\ inflight = <<>>
    /\ nextTxId = 1
    /\ calls = 0
    /\ expected = createEmptyPortfolio
    /\ prevDone = [valid |-> FALSE]
    /\ lastDone = [valid |-> FALSE]

ValInit ==
    /\ TopIdle
    /\ DetailsIdle
    /\ RetryIdle
    /\ HookIdle
    /\ ImportIdle
    /\ RateIdle
    /\ FetchIdle
    /\ vTxs \in ValTxLists
    /\ vPrice \in ValCurrentPrices
    /\ vRefresh = NoResult
    /\ vImport = NoResult

\* the valuation refreshPortfolio applies to a position that has a quote
ValueOnRefresh ==
    /\ vRefresh = NoResult
    /\ vRefresh' = [computed |-> TRUE,
                    coin |-> updatePortfolioCoin(ValCoin(vTxs, Zero),
                                [id |-> "bitcoin", symbol |-> "btc",
                                 current_price |-> vPrice])]
    /\ UNCHANGED <<vTxs, vPrice, vImport, hookVars, topVars, detailVars, retryVars, impVars, rateVars, fetchVars>>

\* the valuation importPortfolio applies to a position of the payload
ValueOnImport ==
    /\ vImport = NoResult
    /\ vImport' = [computed |-> TRUE,
                   coin |-> processPortfolioData(<<ValCoin(vTxs, vPrice)>>).coins[1]]
    /\ UNCHANGED <<vTxs, vPrice, vRefresh, hookVars, topVars, detailVars, retryVars, impVars, rateVars, fetchVars>>

ValNext == ValueOnRefresh \/ ValueOnImport

SpecVal == ValInit /\ [][ValNext]_vars

-----------------------------------------------------------------------------
(* Claims about the valuation                                              *)

ScenarioTxs ==
    <<Tx(0, "buy", Num(1), Num(10000)), Tx(0, "sell", Norm(2, 5), Num(12000))>>

ScenarioValues(coin, currentPrice) ==
    /\ coin.holdings = Norm(3, 5)
    /\ coin.totalInvestment = Num(6000)
    /\ coin.averageBuyPrice = Num(10000)
    /\ Mul(coin.holdings, currentPrice) = Num(9000)
    /\ coin.currentValue = Num(9000)
    /\ coin.profitLoss = Num(3000)
    /\ coin.profitLossPercentage = Num(50)

\* C1: valuing [Buy 1.0 @ 10000, Sell 0.4 @ 12000] at currentPrice 15000
\* yields holdings 0.6, investedCapital 6000, averageCost 10000,
\* currentValue 9000, profitLoss 3000 and profitLossPct 50, in the valuation
\* used on refresh and in the one used on import.
C1_ScenarioYieldsSpecValues ==
    (vTxs = ScenarioTxs /\ vPrice = Num(15000)) =>
        /\ vRefresh.computed => ScenarioValues(vRefresh.coin, vPrice)
        /\ vImport.computed => ScenarioValues(vImport.coin, vPrice)

RECURSIVE ClaimedCapitalFrom(_, _, _, _)
\* the rule the claim states: a Buy adds amount * price, a Sell removes the
\* share sellAmount / preSaleHoldings of the capital invested so far
ClaimedCapitalFrom(transactions, i, holdings, capital) ==
    IF i > Len(transactions) THEN capital
    ELSE LET tx == transactions[i]
         IN  IF tx.type = "buy"
             THEN ClaimedCapitalFrom(transactions, i + 1,
                     Add(holdings, tx.amount),
                     Add(capital, Mul(tx.amount, tx.price)))
             ELSE ClaimedCapitalFrom(transactions, i + 1,
                     Sub(holdings, tx.amount),
                     Sub(capital, Mul(Div(tx.amount, holdings), capital)))

\* every Sell sells at most what is held when it is applied
NoOverSell(transactions) ==
    \A k \in 1..Len(transactions) :
        ~Lt(calculateHoldings(SubSeq(transactions, 1, k)), Zero)

\* C2: for every transaction sequence (here: those without an over-sell), the
\* invested capital is the result of adding amount * price on a Buy and
\* removing (sellAmount / preSaleHoldings) * investedCapital on a Sell, in
\* the valuation used on refresh and in the one used on import.
C2_SellReducesCapitalProportionally ==
    NoOverSell(vTxs) =>
        /\ vRefresh.computed =>
              vRefresh.coin.totalInvestment = ClaimedCapitalFrom(vTxs, 1, Zero, Zero)
        /\ vImport.computed =>
              vImport.coin.totalInvestment = ClaimedCapitalFrom(vTxs, 1, Zero, Zero)

-----------------------------------------------------------------------------
(* The usePortfolio hook: hooks/usePortfolio.js with the localStorage      *)
(* helpers.  A handler runs to its first await as one step; the quotes of  *)
(* an awaited getMultipleCryptocurrencyDetails arrive in a later step, in  *)
(* any order.  React calls the updater passed to setPortfolio either at    *)
(* once (an idle fiber computes the next state eagerly) or during the next *)
(* render, after the handler, and so after the read of localStorage that   *)
(* refreshPortfolio makes in the handler: "eager" chooses between the two. *)

getPortfolioFromStorage == IF storage = <<>> THEN <<>> ELSE storage

\* coins.findIndex((coin) => coin.id === coinId), 0 when there is none
FindCoinIndex(coins, coinId) ==
    IF \E i \in 1..Len(coins) : coins[i].id = coinId
    THEN CHOOSE i \in 1..Len(coins) :
            /\ coins[i].id = coinId
            /\ \A j \in 1..(i - 1) : coins[j].id # coinId
    ELSE 0

FindTxIndex(transactions, transactionId) ==
    IF \E i \in 1..Len(transactions) : transactions[i].id = transactionId
    THEN CHOOSE i \in 1..Len(transactions) :
            /\ transactions[i].id = transactionId
            /\ \A j \in 1..(i - 1) : transactions[j].id # transactionId
    ELSE 0

RECURSIVE FilterSeq(_, _, _)
\* seq.filter(keep), keep given as the set of indices kept
FilterSeq(seq, keep, i) ==
    IF i > Len(seq) THEN <<>>
    ELSE (IF i \in keep THEN <<seq[i]>> ELSE <<>>) \o FilterSeq(seq, keep, i + 1)

\* The updaters return the next state and whether they called
\* savePortfolioToStorage on it.
AddTransactionUpdater(prevPortfolio, coinId, transaction) ==
    LET coinIndex == FindCoinIndex(prevPortfolio.coins, coinId)
        updatedCoins ==
            IF coinIndex > 0
            THEN [prevPortfolio.coins EXCEPT
                    ![coinIndex].transactions = Append(@, transaction)]
            ELSE Append(prevPortfolio.coins, NewCoin(coinId, transaction))
    IN  [p |-> [prevPortfolio EXCEPT !.coins = updatedCoins], save |-> TRUE]

\* a variant that keeps a position whose last transaction was deleted
DeleteTransactionUpdaterKeepingPosition(prevPortfolio, coinId, transactionId) ==
    LET coinIndex == FindCoinIndex(prevPortfolio.coins, coinId)
    IN  IF coinIndex = 0 THEN [p |-> prevPortfolio, save |-> FALSE]
        ELSE LET old == prevPortfolio.coins[coinIndex].transactions
             IN  [p |-> [prevPortfolio EXCEPT
                            !.coins[coinIndex].transactions =
                                FilterSeq(old,
                                    {i \in 1..Len(old) :
                                        old[i].id # transactionId}, 1)],
                  save |-> TRUE]

DeleteTransactionUpdater(prevPortfolio, coinId, transactionId) ==
    LET coinIndex == FindCoinIndex(prevPortfolio.coins, coinId)
    IN  IF coinIndex = 0 THEN [p |-> prevPortfolio, save |-> FALSE]
        ELSE LET old == prevPortfolio.coins[coinIndex].transactions
                 kept == FilterSeq(old,
                            {i \in 1..Len(old) : old[i].id # transactionId}, 1)
                 updatedCoins ==
                    [prevPortfolio.coins EXCEPT ![coinIndex].transactions = kept]
                 filteredCoins ==
                    IF Len(kept) = 0
                    THEN FilterSeq(updatedCoins,
                            {i \in 1..Len(updatedCoins) :
                                updatedCoins[i].id # coinId}, 1)
                    ELSE updatedCoins
             IN  [p |-> [prevPortfolio EXCEPT !.coins = filteredCoins],
                  save |-> TRUE]

UpdateTransactionUpdater(prevPortfolio, coinId, transactionId, transactionData) ==
    LET coinIndex == FindCoinIndex(prevPortfolio.coins, coinId)
    IN  IF coinIndex = 0 THEN [p |-> prevPortfolio, save |-> FALSE]
        ELSE LET transactionIndex ==
                    FindTxIndex(prevPortfolio.coins[coinIndex].transactions,
                                transactionId)
             IN  IF transactionIndex = 0
                 THEN [p |-> prevPortfolio, save |-> FALSE]
                 ELSE [p |-> [prevPortfolio EXCEPT
                                !.coins[coinIndex].transactions[transactionIndex] =
                                    Tx(transactionId, transactionData.type,
                                       transactionData.amount,
                                       transactionData.price)],
                       save |-> TRUE]

\* ---- bounds and inputs of the hook's specification
MaxCalls == 2
MaxInflight == 2

CoinIds == {"bitcoin", "ethereum"}
SymbolOf(id) == IF id = "bitcoin" THEN "btc" ELSE "eth"

TxInputs ==
    {[type |-> "buy", amount |-> Num(2), price |-> Num(1)],
     [type |-> "sell", amount |-> Num(1), price |-> Num(2)]}

QuotePrices == {Num(3)}

\* what getMultipleCryptocurrencyDetails(coinIds) can resolve to: quotes for
\* any part of the coins asked for (it absorbs every failure)
CryptoDataMaps(coinIds) ==
    LET priceMaps == UNION {[ids -> QuotePrices] : ids \in SUBSET coinIds}
    IN  {[id \in DOMAIN pm |->
            [id |-> id, symbol |-> SymbolOf(id), current_price |-> pm[id]]] :
         pm \in priceMaps}

CoinIdsOf(pf) == {pf.coins[i].id : i \in 1..Len(pf.coins)}

TotalsOf(pf) ==
    <<pf.totalInvestment, pf.totalValue, pf.totalProfitLoss,
      pf.totalProfitLossPercentage>>

\* a portfolio a previous session left in localStorage
StoredByEarlierSession ==
    updatePortfolio(
        AddTransactionUpdater(createEmptyPortfolio, "bitcoin",
                              Tx(0, "buy", Num(2), Num(1))).p,
        [id \in {"bitcoin"} |->
            [id |-> id, symbol |-> SymbolOf(id), current_price |-> Num(2)]])

Refresh(kind, snapshot) ==
    [kind |-> kind, snapshot |-> snapshot, seq |-> lastDone.valid]

\* no in-flight refresh is a sequential repetition of the last one any more
Unlinked(fl) == [i \in 1..Len(fl) |-> [fl[i] EXCEPT !.seq = FALSE]]

RemoveAt(seq, i) == SubSeq(seq, 1, i - 1) \o SubSeq(seq, i + 1, Len(seq))

HookInit ==
    /\ TopIdle
    /\ DetailsIdle
    /\ RetryIdle
    /\ ValIdle
    /\ ImportIdle
    /\ RateIdle
    /\ FetchIdle
    /\ storage \in {<<>>, savePortfolioToStorage(StoredByEarlierSession)}
    /\ portfolio = createEmptyPortfolio
    /\ lastDone = [valid |-> FALSE]
    /\ prevDone = [valid |-> FALSE]
    /\ nextTxId = 1
    /\ calls = 0
    /\ expected = IF storage = <<>> THEN createEmptyPortfolio ELSE storage[1]
    \* initPortfolio: lines 37-54, up to the await
    /\ inflight = IF storage = <<>> \/ Len(storage[1].coins) = 0
                  THEN <<>>
                  ELSE <<Refresh("init", storage[1])>>

\* a mutating call: setPortfolio(updater), then refreshPortfolio() up to its
\* await.  r is the updater's result on the current state.
MutateThenRefresh(r, eager) ==
    LET storageAfter == IF r.save THEN savePortfolioToStorage(r.p) ELSE storage
        seen == IF eager THEN storageAfter ELSE storage
        currentPortfolio == IF seen = <<>> THEN createEmptyPortfolio ELSE seen[1]
    IN  /\ storage' = storageAfter
        /\ IF Len(currentPortfolio.coins) = 0
           THEN /\ portfolio' = createEmptyPortfolio
                /\ inflight' = Unlinked(inflight)
           ELSE /\ portfolio' = r.p
                /\ inflight' = Append(Unlinked(inflight),
                                  [Refresh("refresh", currentPortfolio)
                                      EXCEPT !.seq = FALSE])
        /\ lastDone' = [valid |-> FALSE]
        /\ prevDone' = [valid |-> FALSE]

addTransaction(coinId, transactionData, eager) ==
    /\ calls < MaxCalls
    /\ Len(inflight) < MaxInflight
    /\ LET transaction == Tx(nextTxId, transactionData.type,
                             transactionData.amount, transactionData.price)
       IN  /\ MutateThenRefresh(
                 AddTransactionUpdater(portfolio, coinId, transaction), eager)
           /\ expected' = AddTransactionUpdater(expected, coinId, transaction).p
    /\ nextTxId' = nextTxId + 1
    /\ calls' = calls + 1
    /\ UNCHANGED <<valVars, detailVars, retryVars, topVars, impVars, rateVars, fetchVars>>

deleteTransaction(coinId, transactionId, eager) ==
    /\ calls < MaxCalls
    /\ Len(inflight) < MaxInflight
    /\ MutateThenRefresh(
          DeleteTransactionUpdater(portfolio, coinId, transactionId), eager)
    /\ expected' = DeleteTransactionUpdater(expected, coinId, transactionId).p
    /\ calls' = calls + 1
    /\ UNCHANGED <<nextTxId, valVars, detailVars, retryVars, topVars, impVars, rateVars, fetchVars>>

updateTransaction(coinId, transactionId, transactionData, eager) ==
    /\ calls < MaxCalls
    /\ Len(inflight) < MaxInflight
    /\ MutateThenRefresh(
          UpdateTransactionUpdater(portfolio, coinId, transactionId,
                                   transactionData), eager)
    /\ expected' = UpdateTransactionUpdater(expected, coinId, transactionId,
                                            transactionData).p
    /\ calls' = calls + 1
    /\ UNCHANGED <<nextTxId, valVars, detailVars, retryVars, topVars, impVars, rateVars, fetchVars>>

\* refreshPortfolio called on its own, lines 208-225
refreshPortfolio ==
    /\ calls < MaxCalls
    /\ Len(inflight) < MaxInflight
    /\ LET currentPortfolio ==
              IF getPortfolioFromStorage = <<>> THEN createEmptyPortfolio
              ELSE getPortfolioFromStorage[1]
       IN  IF Len(currentPortfolio.coins) = 0
           THEN /\ portfolio' = createEmptyPortfolio
                /\ inflight' = Unlinked(inflight)
                /\ prevDone' = lastDone
                /\ lastDone' = [valid |-> TRUE, quotes |-> <<>>,
                                memory |-> TotalsOf(createEmptyPortfolio),
                                stored |-> TotalsOf(currentPortfolio)]
           ELSE /\ inflight' = Append(inflight,
                                      Refresh("refresh", currentPortfolio))
                /\ UNCHANGED <<portfolio, prevDone, lastDone>>
    /\ calls' = calls + 1
    /\ UNCHANGED <<storage, nextTxId, expected, valVars, detailVars, retryVars, topVars, impVars, rateVars, fetchVars>>

\* the quotes arrive: lines 56-63 and 227-231
QuotesArrive(i, cryptoDataMap) ==
    LET updatedPortfolio == updatePortfolio(inflight[i].snapshot, cryptoDataMap)
    IN  /\ portfolio' = updatedPortfolio
        /\ storage' = savePortfolioToStorage(updatedPortfolio)
        /\ inflight' = Unlinked(RemoveAt(inflight, i))
        /\ prevDone' = IF inflight[i].seq THEN lastDone ELSE [valid |-> FALSE]
        /\ lastDone' = [valid |-> TRUE,
                        quotes |-> cryptoDataMap,
                        memory |-> TotalsOf(updatedPortfolio),
                        stored |-> TotalsOf(JsonPortfolio(updatedPortfolio))]
        /\ UNCHANGED <<nextTxId, calls, expected, valVars, detailVars, retryVars, topVars, impVars, rateVars, fetchVars>>

initPortfolioCompletes ==
    \E i \in 1..Len(inflight) :
        /\ inflight[i].kind = "init"
        /\ \E m \in CryptoDataMaps(CoinIdsOf(inflight[i].snapshot)) :
              QuotesArrive(i, m)

refreshPortfolioCompletes ==
    \E i \in 1..Len(inflight) :
        /\ inflight[i].kind = "refresh"
        /\ \E m \in CryptoDataMaps(CoinIdsOf(inflight[i].snapshot)) :
              QuotesArrive(i, m)

HookNext ==
    \/ \E c \in CoinIds, d \in TxInputs, eager \in BOOLEAN :
          addTransaction(c, d, eager)
    \/ \E c \in CoinIds, t \in 0..(nextTxId - 1), eager \in BOOLEAN :
          deleteTransaction(c, t, eager)
    \/ \E c \in CoinIds, t \in 0..(nextTxId - 1), d \in TxInputs, eager \in BOOLEAN :
          updateTransaction(c, t, d, eager)
    \/ refreshPortfolio
    \/ initPortfolioCompletes
    \/ refreshPortfolioCompletes

SpecHook == HookInit /\ [][HookNext]_vars

-----------------------------------------------------------------------------
(* Claims about the hook                                                   *)

Stored == IF storage = <<>> THEN createEmptyPortfolio ELSE storage[1]

\* the ledger of a portfolio: its positions' ids and transactions
LedgerOf(pf) ==
    [i \in 1..Len(pf.coins) |-> <<pf.coins[i].id, pf.coins[i].transactions>>]

\* C3: once every pending operation has completed, the persisted ledger
\* holds exactly the transactions obtained by applying the mutating calls in
\* call order.
C3_MutationsSerialized ==
    inflight = <<>> => LedgerOf(Stored) = LedgerOf(expected)

\* C10: a refresh that starts after another refresh has completed, with no
\* mutating call and no other completion in between, and that receives the
\* same quotes, leaves the same portfolio totals in memory and in storage.
C10_RefreshIdempotent ==
    (prevDone.valid /\ lastDone.valid /\ prevDone.quotes = lastDone.quotes) =>
        /\ lastDone.memory = prevDone.memory
        /\ lastDone.stored = prevDone.stored

C10_Witness ==
    /\ prevDone.valid
    /\ lastDone.valid
    /\ prevDone.quotes = lastDone.quotes
    /\ DOMAIN lastDone.quotes # {}
    /\ Len(portfolio.coins) = 2
    /\ lastDone.memory[2] # Zero
    /\ lastDone.stored[1] # Zero

-----------------------------------------------------------------------------
(* Import and export: hooks/usePortfolio.js, importPortfolio and            *)
(* exportPortfolioData.  importPortfolio runs to its await of the market    *)
(* data as one step and resumes with what the providers returned.           *)

\* a JavaScript string that is neither undefined nor empty
Truthy(str) == str \notin {Missing, ""}

\* a || b on numbers
OrElse(a, b) == IF a \in {Undefined, Null, NaN, Zero} THEN b ELSE a

\* String.prototype.toLowerCase on the symbols that occur
ToLowerCase(str) ==
    IF str = "BTC" THEN "btc" ELSE IF str = "ETH" THEN "eth" ELSE str

\* `${coin.symbol}-${Date.now()}`
GeneratedId(symbol) ==
    (IF symbol = Missing THEN "undefined" ELSE symbol) \o "-1700000000000"

\* JSON.stringify of the portfolio with coinGeckoId: coin.id on every coin
exportPortfolioData ==
    [json |-> "object",
     hasCoins |-> TRUE,
     coins |-> [i \in 1..Len(portfolio.coins) |->
                  [JsonCoin(portfolio.coins[i])
                      EXCEPT !.coinGeckoId = portfolio.coins[i].id]]]

\* lines 261-269
NormalizeCoin(coin) ==
    [coin EXCEPT !.id = IF Truthy(coin.coinGeckoId) THEN coin.coinGeckoId
                        ELSE IF Truthy(coin.id) THEN coin.id
                        ELSE GeneratedId(coin.symbol)]

\* coin.coinGeckoId || coin.id
GeckoIdOrId(coin) == IF Truthy(coin.coinGeckoId) THEN coin.coinGeckoId ELSE coin.id

\* lines 282-286
ImportCoinIds(coins) ==
    {GeckoIdOrId(coins[i]) :
        i \in {j \in 1..Len(coins) :
                  \/ Truthy(coins[j].coinGeckoId)
                  \/ (Truthy(coins[j].id) /\ Len(coins[j].id) > 5)}}

RECURSIVE SymbolsFrom(_, _, _)
\* lines 277-279: the Set of lower-cased symbols, in insertion order
SymbolsFrom(coins, i, seen) ==
    IF i > Len(coins) THEN seen
    ELSE LET symbol == ToLowerCase(coins[i].symbol)
         IN  SymbolsFrom(coins, i + 1,
                IF \E k \in 1..Len(seen) : seen[k] = symbol
                THEN seen ELSE Append(seen, symbol))

\* lines 289-296: coinsBySymbol[symbol]
CoinsBySymbol(coins, symbol) ==
    FilterSeq(coins,
              {i \in 1..Len(coins) : ToLowerCase(coins[i].symbol) = symbol}, 1)

RECURSIVE RewriteGroup(_, _, _, _)
\* lines 343-360 and 386-404: every coin of the group that is still found
\* under its id takes the id and the price of crypto
RewriteGroup(st, group, k, crypto) ==
    IF k > Len(group) THEN st
    ELSE LET coinIndex == FindCoinIndex(st.coins, group[k].id)
         IN  RewriteGroup(
                IF coinIndex = 0 THEN st
                ELSE [st EXCEPT
                        !.coins[coinIndex].id = crypto.id,
                        !.coins[coinIndex].currentPrice =
                            OrElse(crypto.current_price, OrElse(@, Zero)),
                        !.updated = TRUE],
                group, k + 1, crypto)

\* lines 316-336: the quotes fetched by id
RewriteFromSpecific(coins, specificCryptos) ==
    [coins |-> [i \in 1..Len(coins) |->
                  LET coinId == GeckoIdOrId(coins[i])
                  IN  IF coinId \in DOMAIN specificCryptos
                      THEN [coins[i] EXCEPT
                              !.id = specificCryptos[coinId].id,
                              !.currentPrice =
                                  OrElse(specificCryptos[coinId].current_price,
                                         OrElse(@, Zero))]
                      ELSE coins[i]],
     updated |-> \E i \in 1..Len(coins) :
                    GeckoIdOrId(coins[i]) \in DOMAIN specificCryptos,
     symbols |-> SymbolsFrom(coins, 1, <<>>)]

RECURSIVE RewriteFromTop(_, _, _, _)
\* lines 339-365: the list of top cryptocurrencies, matched by symbol
RewriteFromTop(st, coins, topCryptos, k) ==
    IF k > Len(topCryptos) THEN st
    ELSE LET symbol == ToLowerCase(topCryptos[k].symbol)
             group == CoinsBySymbol(coins, symbol)
         IN  RewriteFromTop(
                IF Len(group) = 0 THEN st
                ELSE [RewriteGroup(st, group, 1, topCryptos[k]) EXCEPT
                        !.symbols = FilterSeq(@,
                            {i \in 1..Len(@) : @[i] # symbol}, 1)],
                coins, topCryptos, k + 1)

\* lines 380-383
MatchingCrypto(searchResults, symbol) ==
    IF \E i \in 1..Len(searchResults) :
            ToLowerCase(searchResults[i].symbol) = symbol
    THEN searchResults[CHOOSE i \in 1..Len(searchResults) :
            /\ ToLowerCase(searchResults[i].symbol) = symbol
            /\ \A j \in 1..(i - 1) :
                  ToLowerCase(searchResults[j].symbol) # symbol]
    ELSE searchResults[1]

RECURSIVE RewriteFromSearch(_, _, _, _, _)
\* lines 368-410: one search for every symbol the top list did not have
RewriteFromSearch(st, coins, symbols, k, search) ==
    IF k > Len(symbols) THEN st
    ELSE LET searchResults == search[symbols[k]]
         IN  RewriteFromSearch(
                IF Len(searchResults) = 0 THEN st
                ELSE RewriteGroup(st, CoinsBySymbol(coins, symbols[k]), 1,
                                  MatchingCrypto(searchResults, symbols[k])),
                coins, symbols, k + 1, search)

\* ---- what the providers can return
\* the prices of the quotes; a missing exchange price is delivered as 0
ImportQuotePrices == {Num(3), Zero}

\* a quote of the primary provider, under its coin id
GeckoQuote(id, price) ==
    [id |-> id, symbol |-> SymbolOf(id), current_price |-> price]

\* a quote built from an exchange pair: its id is the lower-cased base symbol
\* (lib/api.js lines 476-480)
BinanceQuote(symbol, price) ==
    [id |-> symbol, symbol |-> symbol, current_price |-> price]

\* getTopCryptocurrencies(100)
TopLists ==
    {<<>>}
    \cup {<<GeckoQuote("bitcoin", pr), GeckoQuote("ethereum", pr)>> :
            pr \in ImportQuotePrices}
    \cup {<<BinanceQuote("btc", pr)>> : pr \in ImportQuotePrices}
    \cup {<<BinanceQuote("btc", pr), BinanceQuote("eth", pr)>> :
            pr \in ImportQuotePrices}

\* searchCryptocurrencies(symbol)
SearchLists(symbol) ==
    IF symbol = "" THEN {<<>>}
    ELSE {<<>>}
         \cup {<<BinanceQuote(symbol, pr)>> : pr \in ImportQuotePrices}
         \cup {<<GeckoQuote(id, pr)>> :
                 id \in {c \in CoinIds : SymbolOf(c) = symbol},
                 pr \in ImportQuotePrices}

SearchMaps(symbols) ==
    LET all == UNION {SearchLists(sy) : sy \in symbols}
    IN  {f \in [symbols -> all] : \A sy \in symbols : f[sy] \in SearchLists(sy)}

\* getMultipleCryptocurrencyDetails(Array.from(coinIds)), or {} without ids
SpecificMaps(coinIds) == CryptoDataMaps(coinIds \cap CoinIds)

\* ---- the portfolios importPortfolio is called on
TwoCoinPortfolio ==
    updatePortfolio(
        AddTransactionUpdater(
            AddTransactionUpdater(createEmptyPortfolio, "bitcoin",
                                  Tx(1, "buy", Num(2), Num(1))).p,
            "ethereum", Tx(2, "buy", Num(1), Num(2))).p,
        [id \in CoinIds |->
            [id |-> id, symbol |-> SymbolOf(id), current_price |-> Num(2)]])

\* a position was added and its refresh got no quote
UnquotedPortfolio ==
    updatePortfolio(
        AddTransactionUpdater(createEmptyPortfolio, "bitcoin",
                              Tx(1, "buy", Num(2), Num(1))).p,
        <<>>)

ImportStartPortfolios ==
    {createEmptyPortfolio, StoredByEarlierSession, TwoCoinPortfolio,
     UnquotedPortfolio}

\* ---- the files importPortfolio is given
File(coins) == [json |-> "object", hasCoins |-> TRUE, coins |-> coins]

FileCoin(id, coinGeckoId, symbol, transaction) ==
    [NewCoin(id, transaction) EXCEPT !.coinGeckoId = coinGeckoId,
                                     !.symbol = symbol]

\* not JSON
UnparsableFile == [json |-> "unparsable", hasCoins |-> FALSE, coins |-> <<>>]
\* the JSON text null
NullFile == [json |-> "null", hasCoins |-> FALSE, coins |-> <<>>]
\* an object without a coins array
NoCoinsFile == [json |-> "object", hasCoins |-> FALSE, coins |-> <<>>]
\* a transaction without an amount
NoAmountFile ==
    File(<<FileCoin("bitcoin", Missing, "btc",
                    Tx(1, "buy", Undefined, Num(1)))>>)
\* a position without a symbol
NoSymbolFile ==
    File(<<FileCoin("bitcoin", Missing, Missing,
                    Tx(1, "buy", Num(2), Num(1)))>>)
\* a file of another tool: no ids, upper-case symbol
ForeignFile ==
    File(<<FileCoin(Missing, Missing, "BTC", Tx(1, "buy", Num(2), Num(1)))>>)

\* two positions with the same symbol, one under a short id
SameSymbolFile ==
    File(<<FileCoin("bitcoin", Missing, "btc", Tx(1, "buy", Num(2), Num(1))),
           FileCoin("wbtc", Missing, "btc", Tx(2, "sell", Num(1), Num(2)))>>)

ImportFiles ==
    {UnparsableFile, NullFile, NoCoinsFile, NoAmountFile, NoSymbolFile,
     ForeignFile, SameSymbolFile}

ImportDone(data, roundTrip, result) ==
    [pc |-> "done", data |-> data, roundTrip |-> roundTrip,
     before |-> [portfolio |-> portfolio, storage |-> storage],
     result |-> result]

ImportInit ==
    /\ TopIdle
    /\ DetailsIdle
    /\ RetryIdle
    /\ ValIdle
    /\ ImportIdle
    /\ RateIdle
    /\ FetchIdle
    /\ portfolio \in ImportStartPortfolios
    /\ storage = IF Len(portfolio.coins) = 0
                 THEN <<>> ELSE savePortfolioToStorage(portfolio)
    /\ inflight = <<>>
    /\ nextTxId = 1
    /\ calls = 0
    /\ expected = portfolio
    /\ prevDone = [valid |-> FALSE]
    /\ lastDone = [valid |-> FALSE]

\* importPortfolio(data), lines 245-311: up to a return or to the await.
\* roundTrip records that data is what exportPortfolioData just returned.
importPortfolio(data, roundTrip) ==
    /\ imp.pc = "idle"
    /\ IF data.json # "object" \/ ~data.hasCoins
       THEN \* JSON.parse throws, or the structural check returns false
            /\ imp' = ImportDone(data, roundTrip, FALSE)
            /\ UNCHANGED <<portfolio, storage>>
       ELSE LET coins == [i \in 1..Len(data.coins) |->
                             NormalizeCoin(data.coins[i])]
            IN  \* initialProcessed is set and saved, lines 272-274
                /\ portfolio' = processPortfolioData(coins)
                /\ storage' = savePortfolioToStorage(portfolio')
                /\ imp' =
                     IF \E i \in 1..Len(coins) : coins[i].symbol = Missing
                     THEN \* coin.symbol.toLowerCase() throws at line 278
                          ImportDone(data, roundTrip, FALSE)
                     ELSE IF Len(coins) = 0
                     THEN ImportDone(data, roundTrip, TRUE)
                     ELSE [ImportDone(data, roundTrip, TRUE) EXCEPT
                             !.pc = "await"] @@ [coins |-> coins]
    /\ UNCHANGED <<valVars, detailVars, retryVars, topVars, inflight, nextTxId, calls, expected, prevDone,
                   lastDone, rateVars, fetchVars>>

\* lines 304-426: the market data arrived
importPortfolioResumes ==
    /\ imp.pc = "await"
    /\ \E topCryptos \in TopLists,
          specificCryptos \in SpecificMaps(ImportCoinIds(imp.coins)) :
          LET st1 == RewriteFromSpecific(imp.coins, specificCryptos)
              st2 == RewriteFromTop(st1, imp.coins, topCryptos, 1)
          IN  \E search \in SearchMaps({st2.symbols[k] :
                                           k \in 1..Len(st2.symbols)}) :
                LET st3 == RewriteFromSearch(st2, imp.coins, st2.symbols, 1,
                                             search)
                IN  IF st3.updated
                    THEN \* finalProcessed is set and saved, lines 415-417
                         /\ portfolio' = processPortfolioData(st3.coins)
                         /\ storage' = savePortfolioToStorage(portfolio')
                    ELSE UNCHANGED <<portfolio, storage>>
    /\ imp' = [pc |-> "done", data |-> imp.data, roundTrip |-> imp.roundTrip,
               before |-> imp.before, result |-> imp.result]
    /\ UNCHANGED <<valVars, detailVars, retryVars, topVars, inflight, nextTxId, calls, expected, prevDone,
                   lastDone, rateVars, fetchVars>>

ImportNext ==
    \/ \E data \in ImportFiles : importPortfolio(data, FALSE)
    \/ \E data \in {exportPortfolioData} : importPortfolio(data, TRUE)
    \/ importPortfolioResumes

SpecImport == ImportInit /\ [][ImportNext]_vars

-----------------------------------------------------------------------------
(* Claims about import                                                      *)

HasTxWithoutAmount(data) ==
    \E i \in 1..Len(data.coins) :
        \E k \in 1..Len(data.coins[i].transactions) :
            data.coins[i].transactions[k].amount = Undefined

ImportLeftUntouched ==
    /\ portfolio = imp.before.portfolio
    /\ storage = imp.before.storage

\* C7: a payload in which some transaction has no amount is rejected, and
\* the in-memory portfolio and the persisted ledger are as before the call.
C7_NoAmountRejected ==
    (imp.pc # "idle" /\ HasTxWithoutAmount(imp.data)) =>
        (imp.result = FALSE /\ ImportLeftUntouched)

\* C8: whenever importPortfolio reports failure, the call has modified
\* neither the in-memory portfolio nor the persisted ledger.
C8_FailureLeavesNoMutation ==
    (imp.pc = "done" /\ imp.result = FALSE) => ImportLeftUntouched

\* the positions of a portfolio: coin ids with their transactions
PositionsOf(pf) ==
    {<<pf.coins[i].id, pf.coins[i].transactions>> : i \in 1..Len(pf.coins)}

\* C9: importPortfolio(exportPortfolioData()) leaves the same positions
\* (coin ids) with the same transactions, whatever the providers return.
C9_RoundTripKeepsPositions ==
    (imp.pc = "done" /\ imp.roundTrip) =>
        PositionsOf(portfolio) = PositionsOf(imp.before.portfolio)

-----------------------------------------------------------------------------
(* The request limiters: lib/api.js, rateLimitedRequest, and the limiter of *)
(* the proxy route GET.  Every call of rateLimitedRequest stands for one    *)
(* request of some caller; a development build calls the provider itself,   *)
(* a production build calls the proxy route, which calls the provider (the  *)
(* requests are for different endpoints, so the proxy's cache has none).    *)
(* Time passes in steps, and never past a pending timer.                    *)

MAX_REQUESTS_PER_MINUTE == 8
\* the length of a limiter window, and of the cooling period after a 429
MinuteMs == 60000
\* the margin added to a wait for the end of the window
ExtraWaitMs == 1000

\* ---- bounds of the limiter specification
MaxRequests == 10
Max429 == 1
MaxTicks == 2
TickSteps == {1001, 59000}

\* lines 160-164 (lib/api.js) and 133-136 (proxy route)
WindowReset(counts, t) ==
    IF t - counts.requestResetTime > MinuteMs
    THEN [requestCount |-> 0, requestResetTime |-> t]
    ELSE counts

Timer(who, kind, due) == [who |-> who, kind |-> kind, due |-> due]

\* the part of the state the limiters act on
Net ==
    [limiter |-> limiter, timers |-> timers, rejected |-> rejected,
     callLog |-> callLog]

\* the provider is called; fate is the answer it will give
ProviderCall(s, kind, fate) ==
    [s EXCEPT !.callLog = Append(@, now),
              !.rejected = IF fate = "429" THEN @ (+) SetToBag({kind}) ELSE @]

\* proxy route, lines 147-166
ProxyCounted(s, kind, fate) ==
    ProviderCall([s EXCEPT !.limiter.proxy.requestCount = @ + 1], kind, fate)

\* proxy route GET, lines 131-166, on a cache miss and without an API key
ProxyGET(s, kind, fate) ==
    LET w == WindowReset(s.limiter.proxy, now)
    IN  IF w.requestCount >= MAX_REQUESTS_PER_MINUTE
        THEN [s EXCEPT
                !.limiter.proxy = w,
                !.timers = @ (+) SetToBag({Timer("proxy", kind,
                    now + (MinuteMs - (now - w.requestResetTime)) + ExtraWaitMs)})]
        ELSE ProxyCounted([s EXCEPT !.limiter.proxy = w], kind, fate)

\* the fetcher passed by fetchCoinGeckoProxy, lib/api.js lines 265-295
Fetcher(s, kind, fate) ==
    IF isProduction THEN ProxyGET(s, kind, fate) ELSE ProviderCall(s, kind, fate)

Fates == IF issued.answers429 < Max429 THEN {"ok", "429"} ELSE {"ok"}

DueTimers(who) == {t \in BagToSet(timers) : t.who = who /\ t.due <= now}

\* the limiters move to s; requests is the number of new requests
NetBecomes(s, requests) ==
    /\ limiter' = s.limiter
    /\ timers' = s.timers
    /\ rejected' = s.rejected
    /\ callLog' = s.callLog
    /\ issued' = [requests |-> issued.requests + requests,
                  answers429 |-> issued.answers429
                      + (BagCardinality(s.rejected) - BagCardinality(rejected))]
    /\ UNCHANGED <<now, ticks, isProduction>>
    /\ UNCHANGED <<valVars, detailVars, retryVars, topVars, hookVars, impVars, fetchVars>>

RateInit ==
    /\ TopIdle
    /\ DetailsIdle
    /\ RetryIdle
    /\ ValIdle
    /\ HookIdle
    /\ ImportIdle
    /\ FetchIdle
    /\ now = Now0
    /\ ticks = 0
    /\ isProduction \in BOOLEAN
    /\ limiter = [client |-> NoCounts,
                  proxy |-> [requestCount |-> 0, requestResetTime |-> Now0]]
    /\ timers = EmptyBag
    /\ rejected = EmptyBag
    /\ callLog = <<>>
    /\ issued = [requests |-> 0, answers429 |-> 0]

\* rateLimitedRequest(fetcher), lines 157-192, up to its first await
rateLimitedRequest ==
    /\ issued.requests < MaxRequests
    /\ \E fate \in Fates :
          LET w == WindowReset(limiter.client, now)
          IN  NetBecomes(
                IF w.requestCount >= MAX_REQUESTS_PER_MINUTE
                THEN [Net EXCEPT
                        !.limiter.client = w,
                        !.timers = @ (+) SetToBag({Timer("client", "first",
                            now + (MinuteMs - (now - w.requestResetTime))
                                + ExtraWaitMs)})]
                ELSE Fetcher([Net EXCEPT
                                !.limiter.client =
                                    [w EXCEPT !.requestCount = @ + 1]],
                             "first", fate),
                1)

\* lines 179-192: the wait for the next minute is over
rateLimitedRequestWakes ==
    \E t \in DueTimers("client"), fate \in Fates :
        NetBecomes(
            Fetcher([Net EXCEPT
                        !.timers = @ (-) SetToBag({t}),
                        !.limiter.client =
                            [requestCount |-> 1, requestResetTime |-> now]],
                    "first", fate),
            0)

\* proxy route, lines 142-166: the wait for the next minute is over
proxyGETWakes ==
    \E t \in DueTimers("proxy"), fate \in Fates :
        NetBecomes(
            ProxyCounted([Net EXCEPT
                            !.timers = @ (-) SetToBag({t}),
                            !.limiter.proxy =
                                [requestCount |-> 0, requestResetTime |-> now]],
                         t.kind, fate),
            0)

\* the provider answers 429: proxy route lines 180-186 and 198-213 (there is
\* no stale copy), lib/api.js lines 193-197.  The answer to a repeated call
\* is thrown to the caller.
providerAnswers429 ==
    \E kind \in BagToSet(rejected) :
        NetBecomes(
            [Net EXCEPT
                !.rejected = @ (-) SetToBag({kind}),
                !.limiter.proxy.requestCount =
                    IF isProduction THEN MAX_REQUESTS_PER_MINUTE ELSE @,
                !.timers = IF kind = "first"
                           THEN @ (+) SetToBag({Timer("cooling", "retry",
                                                      now + MinuteMs)})
                           ELSE @],
            0)

\* lines 197-207: the cooling period is over, the fetcher is called again
coolingEnds ==
    \E t \in DueTimers("cooling"), fate \in Fates :
        NetBecomes(
            Fetcher([Net EXCEPT
                        !.timers = @ (-) SetToBag({t}),
                        !.limiter.client =
                            [requestCount |-> 0, requestResetTime |-> now]],
                    "retry", fate),
            0)

\* the calls of the last minute, at time t
LastMinute(log, t) ==
    FilterSeq(log, {i \in 1..Len(log) : log[i] > t - MinuteMs}, 1)

TimePasses(t) ==
    /\ \A tm \in BagToSet(timers) : tm.due >= t
    /\ now' = t
    /\ callLog' = LastMinute(callLog, t)
    /\ UNCHANGED <<isProduction, limiter, timers, rejected, issued>>
    /\ UNCHANGED <<valVars, detailVars, retryVars, topVars, hookVars, impVars, fetchVars>>

Tick ==
    /\ ticks < MaxTicks
    /\ ticks' = ticks + 1
    /\ \E d \in TickSteps : TimePasses(now + d)

\* time passes up to the next timer
AdvanceToTimer ==
    /\ ticks < MaxTicks
    /\ ticks' = ticks + 1
    /\ \E tm \in BagToSet(timers) : tm.due > now /\ TimePasses(tm.due)

RateNext ==
    \/ rateLimitedRequest
    \/ rateLimitedRequestWakes
    \/ proxyGETWakes
    \/ providerAnswers429
    \/ coolingEnds
    \/ Tick
    \/ AdvanceToTimer

SpecRate == RateInit /\ [][RateNext]_vars

-----------------------------------------------------------------------------
(* Claims about the limiters                                                *)

\* C4: the number of calls made to the provider within any rolling
\* 60-second window never exceeds the budget of 8 per minute, counting
\* repeated calls and calls released after a wait.
C4_BudgetPerRollingMinute == Len(callLog) <= MAX_REQUESTS_PER_MINUTE

-----------------------------------------------------------------------------
(* Fetching the quote of one coin: getMultipleCryptocurrencyDetails with    *)
(* fetchWithRetry, fetchCoinGeckoProxy and rateLimitedRequest of lib/api.js *)
(* and, in a production build, the proxy route GET.  Every caller asks for  *)
(* the same coin.  A handler runs to its next await as one step; the        *)
(* request to the exchange made by enrichWithBinanceData is folded into the *)
(* step that receives the provider's data.  The global throttle of          *)
(* fetchWithRetry (lines 106-120) needs more than ten requests within       *)
(* 200 ms of each other and only delays a request: it is left out.          *)

CACHE_EXPIRY == 60 * 60 * 1000
\* the proxy route's cacheTTL for coins/markets, and that of the stale copy
ProxyFreshTTL == 300 * 1000
ProxyStaleTTL == 86400 * 1000

\* ---- bound of the fetch specification
MaxFailures == 3

\* the provider's quote an hour ago and now
OldQuote == 1
NewQuote == 2

Data(quote) ==
    [quote |-> quote, isArray |-> TRUE, fromStaleCache |-> FALSE,
     binance_price_available |-> FALSE]

\* what the caller of getMultipleCryptocurrencyDetails gets for the coin
ResultOf(data) ==
    [kind |-> "data", quote |-> data.quote,
     markedStale |-> data.fromStaleCache,
     binance_price_available |-> data.binance_price_available]

NoResultForCoin == [kind |-> "missing"]

\* the choices of a step: whether the exchange has a price for the coin,
\* and Math.random() of the backoff (0 or one half)
Choices == [binance : BOOLEAN, random : {0, 1}]

\* the part of the state a fetch acts on
Fs ==
    [callers |-> callers, cache |-> cache, proxyCache |-> proxyCache,
     limiter |-> limiter]

\* lines 874-875 and 256-257
Fresh(entry, t) == entry # <<>> /\ t - entry[1].timestamp < CACHE_EXPIRY

\* proxy route, memoryCache.get, lines 33-41
ProxyCacheGet(entry, t) ==
    IF entry # <<>> /\ ~(entry[1].expires < t) THEN entry ELSE <<>>

Finish(F, p, result) ==
    [F EXCEPT !.callers[p].pc = "done", !.callers[p].result = result]

\* getMultipleCryptocurrencyDetails, lines 900-934: the response is used
Deliver(F, p, response, ch) ==
    IF response.isArray
    THEN LET enriched ==
                [response EXCEPT !.binance_price_available = ch.binance]
         IN  Finish([F EXCEPT !.cache.coinDetails =
                        <<[data |-> enriched,
                           timestamp |-> F.callers[p].startedAt]>>],
                    p, ResultOf(enriched))
    ELSE Finish(F, p, NoResultForCoin)

\* an error reaches the catch of fetchCoinGeckoProxy (lines 304-318), then
\* that of fetchWithRetry (130-138), then that of
\* getMultipleCryptocurrencyDetails (935-946)
AfterError(F, p, ch) ==
    IF F.cache.marketData # <<>>
    THEN Deliver(F, p, F.cache.marketData[1].data, ch)
    ELSE IF F.callers[p].retries > 0
    THEN [F EXCEPT
            !.callers[p].pc = "backoff",
            !.callers[p].due =
                now + F.callers[p].delay
                    + (ch.random * F.callers[p].delay) \div 2,
            !.callers[p].retries = @ - 1,
            !.callers[p].delay = (@ * 3) \div 2]
    ELSE IF F.cache.coinDetails # <<>>
    THEN Finish(F, p, ResultOf(F.cache.coinDetails[1].data))
    ELSE Finish(F, p, NoResultForCoin)

\* the request made by the fetcher is answered: lines 282-303 and 193-209
HandleReply(F, p, reply, ch) ==
    IF reply.status = 200
    THEN Deliver([F EXCEPT !.cache.marketData =
                     <<[data |-> reply.data, timestamp |-> now]>>],
                 p, reply.data, ch)
    ELSE IF reply.status = 429 /\ F.callers[p].kind = "first"
    THEN [F EXCEPT !.callers[p].pc = "cooling",
                   !.callers[p].due = now + MinuteMs]
    ELSE AfterError(F, p, ch)

CallProvider(F, p) ==
    [F EXCEPT !.callers[p].pc = "calling", !.callers[p].providerCalls = @ + 1]

\* proxy route GET, lines 123-166
ProxyGETFor(F, p) ==
    LET cachedData == ProxyCacheGet(F.proxyCache.fresh, now)
        w == WindowReset(F.limiter.proxy, now)
        F1 == [F EXCEPT !.proxyCache.fresh = cachedData, !.limiter.proxy = w]
    IN  IF cachedData # <<>>
        THEN [F EXCEPT !.callers[p].pc = "replied",
                       !.callers[p].reply =
                           [status |-> 200, data |-> cachedData[1].value]]
        ELSE IF w.requestCount >= MAX_REQUESTS_PER_MINUTE
        THEN [F1 EXCEPT
                !.callers[p].pc = "proxyWaiting",
                !.callers[p].due =
                    now + (MinuteMs - (now - w.requestResetTime)) + ExtraWaitMs]
        ELSE CallProvider([F1 EXCEPT !.limiter.proxy.requestCount = @ + 1], p)

\* the fetcher of fetchCoinGeckoProxy, lines 265-280
Send(F, p) == IF isProduction THEN ProxyGETFor(F, p) ELSE CallProvider(F, p)

\* fetchCoinGeckoProxy, lines 250-265, and rateLimitedRequest, lines 157-192
InvokeFetcher(F, p, ch) ==
    IF Fresh(F.cache.marketData, now)
    THEN Deliver(F, p, F.cache.marketData[1].data, ch)
    ELSE LET w == WindowReset(F.limiter.client, now)
         IN  IF w.requestCount >= MAX_REQUESTS_PER_MINUTE
             THEN [F EXCEPT
                     !.limiter.client = w,
                     !.callers[p].pc = "waiting",
                     !.callers[p].due =
                         now + (MinuteMs - (now - w.requestResetTime))
                             + ExtraWaitMs]
             ELSE Send([F EXCEPT
                          !.limiter.client = [w EXCEPT !.requestCount = @ + 1],
                          !.callers[p].kind = "first"], p)

\* fetchWithRetry, lines 122-124: the operation is invoked once more
Attempt(F, p, ch) ==
    InvokeFetcher([F EXCEPT !.callers[p].attempts = @ + 1], p, ch)

Reply(F, p, reply) ==
    [F EXCEPT !.callers[p].pc = "replied", !.callers[p].reply = reply]

\* proxy route, lines 189-195 and 286-294: { ...staleData, _fromStaleCache }
\* of the cached array is an object that is no array
MarkedStale(staleData) ==
    [status |-> 200,
     data |-> [staleData[1].value EXCEPT !.isArray = FALSE,
                                         !.fromStaleCache = TRUE]]

\* a route that saves the answer under the fresh key only
ProxyAnswersFreshOnly(F, p, answer) ==
    LET staleData == ProxyCacheGet(F.proxyCache.stale, now)
        F1 == [F EXCEPT !.proxyCache.stale = staleData]
    IN  IF answer = "ok"
        THEN Reply([F EXCEPT !.proxyCache.fresh =
                      <<[value |-> Data(NewQuote),
                         expires |-> now + ProxyFreshTTL]>>],
                   p, [status |-> 200, data |-> Data(NewQuote)])
        ELSE IF answer = "429"
        THEN Reply([F1 EXCEPT !.limiter.proxy.requestCount =
                                  MAX_REQUESTS_PER_MINUTE],
                   p, IF staleData # <<>> THEN MarkedStale(staleData)
                      ELSE [status |-> 429])
        ELSE IF answer = "500"
        THEN Reply(F, p, [status |-> 500])
        ELSE Reply(F1, p, IF staleData # <<>> THEN MarkedStale(staleData)
                          ELSE [status |-> 504])

\* proxy route GET, lines 163-312: the provider has answered
ProxyAnswers(F, p, answer) ==
    LET staleData == ProxyCacheGet(F.proxyCache.stale, now)
        F1 == [F EXCEPT !.proxyCache.stale = staleData]
    IN  IF answer = "ok"
        THEN Reply([F EXCEPT !.proxyCache =
                      [fresh |-> <<[value |-> Data(NewQuote),
                                    expires |-> now + ProxyFreshTTL]>>,
                       stale |-> <<[value |-> Data(NewQuote),
                                    expires |-> now + ProxyStaleTTL]>>]],
                   p, [status |-> 200, data |-> Data(NewQuote)])
        ELSE IF answer = "429"
        THEN Reply([F1 EXCEPT !.limiter.proxy.requestCount =
                                  MAX_REQUESTS_PER_MINUTE],
                   p, IF staleData # <<>> THEN MarkedStale(staleData)
                      ELSE [status |-> 429])
        ELSE IF answer = "500"
        THEN Reply(F, p, [status |-> 500])
        ELSE \* the call timed out or the network failed
             Reply(F1, p, IF staleData # <<>> THEN MarkedStale(staleData)
                          ELSE [status |-> 504])

\* what axios gives the fetcher of a development build
DirectReply(answer) ==
    IF answer = "ok" THEN [status |-> 200, data |-> Data(NewQuote)]
    ELSE IF answer = "429" THEN [status |-> 429]
    ELSE IF answer = "500" THEN [status |-> 500]
    ELSE [status |-> 0]

Answers == {"ok", "429", "500", "timeout"}

\* the copies of an earlier answer that exist for the request and are
\* no longer fresh
StaleCopies ==
    {cache.marketData[i].data.quote :
        i \in {j \in 1..Len(cache.marketData) : ~Fresh(cache.marketData, now)}}
    \cup {cache.coinDetails[i].data.quote :
        i \in {j \in 1..Len(cache.coinDetails) : ~Fresh(cache.coinDetails, now)}}
    \cup {ProxyCacheGet(proxyCache.stale, now)[i].value.quote :
        i \in {j \in 1..Len(ProxyCacheGet(proxyCache.stale, now)) :
                  isProduction}}

NoCachedEntry ==
    /\ cache = [marketData |-> <<>>, coinDetails |-> <<>>]
    /\ proxyCache = [fresh |-> <<>>, stale |-> <<>>]

FetchBecomes(F, failed) ==
    /\ callers' = F.callers
    /\ cache' = F.cache
    /\ proxyCache' = F.proxyCache
    /\ limiter' = F.limiter
    /\ failures' = failed
    /\ UNCHANGED <<now, ticks, isProduction, timers, rejected, callLog, issued>>
    /\ UNCHANGED <<valVars, detailVars, retryVars, topVars, hookVars, impVars>>

\* an answer of the provider from over an hour before the start
OldEntry == <<[data |-> Data(OldQuote), timestamp |-> Now0]>>

FetchStartCaches ==
    {[marketData |-> <<>>, coinDetails |-> <<>>],
     [marketData |-> OldEntry, coinDetails |-> OldEntry],
     \* the coin was last fetched together with other coins
     [marketData |-> <<>>, coinDetails |-> OldEntry],
     [marketData |-> <<[data |-> Data(OldQuote),
                        timestamp |-> Now0 + CACHE_EXPIRY]>>,
      coinDetails |-> <<[data |-> Data(OldQuote),
                         timestamp |-> Now0 + CACHE_EXPIRY]>>]}

FetchStartProxyCaches ==
    {[fresh |-> <<>>, stale |-> <<>>],
     [fresh |-> <<[value |-> Data(OldQuote), expires |-> Now0 + ProxyFreshTTL]>>,
      stale |-> <<[value |-> Data(OldQuote), expires |-> Now0 + ProxyStaleTTL]>>]}

FetchInit ==
    /\ TopIdle
    /\ DetailsIdle
    /\ RetryIdle
    /\ ValIdle
    /\ HookIdle
    /\ ImportIdle
    /\ now = Now0 + CACHE_EXPIRY + 1
    /\ ticks = 0
    /\ timers = EmptyBag
    /\ rejected = EmptyBag
    /\ callLog = <<>>
    /\ issued = [requests |-> 0, answers429 |-> 0]
    /\ isProduction \in BOOLEAN
    /\ callers = [p \in Callers |-> IdleCaller]
    /\ cache \in FetchStartCaches
    /\ proxyCache \in IF isProduction THEN FetchStartProxyCaches
                      ELSE {[fresh |-> <<>>, stale |-> <<>>]}
    \* nothing was requested in the last minute, or the budget is used up
    /\ limiter \in {[client |-> c, proxy |-> NoCounts] :
                       c \in {NoCounts,
                              [requestCount |-> MAX_REQUESTS_PER_MINUTE,
                               requestResetTime |-> now - 1000]}}
    /\ failures = 0

\* getMultipleCryptocurrencyDetails([coin]), lines 863-898, to its await
getMultipleCryptocurrencyDetails(p) ==
    /\ callers[p].pc = "idle"
    /\ \E ch \in Choices :
          LET others == {q \in Callers \ {p} :
                            callers[q].pc \notin {"idle", "done"}}
              F0 == [Fs EXCEPT !.callers =
                        [q \in Callers |->
                           IF q = p
                           THEN [callers[q] EXCEPT
                                    !.startedAt = now,
                                    !.overlapped = others # {},
                                    !.noCache = NoCachedEntry]
                           ELSE IF q \in others
                           THEN [callers[q] EXCEPT !.overlapped = TRUE]
                           ELSE callers[q]]]
          IN  FetchBecomes(
                IF Fresh(cache.coinDetails, now)
                THEN Finish(F0, p, ResultOf(cache.coinDetails[1].data))
                ELSE Attempt(F0, p, ch),
                failures)

\* fetchWithRetry, lines 137-138: the backoff is over
fetchWithRetryRepeats(p) ==
    /\ callers[p].pc = "backoff"
    /\ callers[p].due <= now
    /\ \E ch \in Choices : FetchBecomes(Attempt(Fs, p, ch), failures)

\* rateLimitedRequest, lines 179-192: the wait for the next minute is over
rateLimitedRequestResumes(p) ==
    /\ callers[p].pc = "waiting"
    /\ callers[p].due <= now
    /\ FetchBecomes(
          Send([Fs EXCEPT
                  !.limiter.client =
                      [requestCount |-> 1, requestResetTime |-> now],
                  !.callers[p].kind = "first"], p),
          failures)

\* rateLimitedRequest, lines 197-207: the cooling period is over
rateLimitedRequestRepeats(p) ==
    /\ callers[p].pc = "cooling"
    /\ callers[p].due <= now
    /\ FetchBecomes(
          Send([Fs EXCEPT
                  !.limiter.client =
                      [requestCount |-> 0, requestResetTime |-> now],
                  !.callers[p].kind = "retry"], p),
          failures)

\* proxy route, lines 142-166: the wait for the next minute is over
proxyGETResumes(p) ==
    /\ callers[p].pc = "proxyWaiting"
    /\ callers[p].due <= now
    /\ FetchBecomes(
          CallProvider([Fs EXCEPT
                          !.limiter.proxy =
                              [requestCount |-> 1, requestResetTime |-> now]],
                       p),
          failures)

\* the provider answers a call
providerAnswers(p, answer) ==
    /\ callers[p].pc = "calling"
    /\ answer # "ok" => failures < MaxFailures
    /\ \E ch \in Choices :
          LET F0 == IF answer = "429"
                    THEN [Fs EXCEPT !.callers[p].saw429 = TRUE,
                                    !.callers[p].staleAt429 = StaleCopies]
                    ELSE Fs
          IN  FetchBecomes(
                IF isProduction THEN ProxyAnswers(F0, p, answer)
                ELSE HandleReply(F0, p, DirectReply(answer), ch),
                IF answer = "ok" THEN failures ELSE failures + 1)

\* the proxy route's response reaches the fetcher
proxyReplies(p) ==
    /\ callers[p].pc = "replied"
    /\ \E ch \in Choices :
          FetchBecomes(HandleReply(Fs, p, callers[p].reply, ch), failures)

TimedPcs == {"backoff", "waiting", "cooling", "proxyWaiting"}

\* time passes up to the next timer
FetchTimePasses ==
    /\ \E q \in Callers :
          /\ callers[q].pc \in TimedPcs
          /\ callers[q].due > now
          /\ \A r \in Callers :
                callers[r].pc \in TimedPcs => callers[r].due >= callers[q].due
          /\ now' = callers[q].due
    /\ UNCHANGED <<ticks, isProduction, limiter, timers, rejected, callLog,
                   issued>>
    /\ UNCHANGED <<valVars, detailVars, retryVars, topVars, hookVars, impVars, fetchVars>>

FetchNext ==
    \/ \E p \in Callers : getMultipleCryptocurrencyDetails(p)
    \/ \E p \in Callers : fetchWithRetryRepeats(p)
    \/ \E p \in Callers : rateLimitedRequestResumes(p)
    \/ \E p \in Callers : rateLimitedRequestRepeats(p)
    \/ \E p \in Callers : proxyGETResumes(p)
    \/ \E p \in Callers, answer \in Answers : providerAnswers(p, answer)
    \/ \E p \in Callers : proxyReplies(p)
    \/ FetchTimePasses

SpecFetch == FetchInit /\ [][FetchNext]_vars

-----------------------------------------------------------------------------
(* Claims about fetching                                                    *)

Done(p) == callers[p].pc = "done"

\* C5: two concurrent calls for the quote of the same coin, neither
\* completed and nothing cached, cause exactly one call to the provider, and
\* both callers receive that call's result.
C5_ConcurrentCallsCoalesce ==
    \A p, q \in Callers :
        (/\ p # q
         /\ Done(p) /\ Done(q)
         /\ callers[p].overlapped /\ callers[q].overlapped
         /\ callers[p].noCache /\ callers[q].noCache)
        => /\ callers[p].providerCalls + callers[q].providerCalls = 1
           /\ callers[p].result = callers[q].result

\* C6: when the provider answers a quote fetch with 429 and a stale copy
\* exists for the request, the caller gets that stale copy, marked as
\* stale, and no error.
C6_StaleCopyMarkedOn429 ==
    \A p \in Callers :
        (Done(p) /\ callers[p].saw429 /\ callers[p].staleAt429 # {})
        => /\ callers[p].result.kind = "data"
           /\ callers[p].result.quote \in callers[p].staleAt429
           /\ callers[p].result.markedStale

-----------------------------------------------------------------------------
(* More claims about the valuation                                         *)

\* the position has a flag set that tells it is inconsistent
FlaggedInconsistent(coin) ==
    \E f \in {"inconsistent", "isInconsistent", "Inconsistent",
              "InconsistentPosition"} :
        f \in DOMAIN coin /\ coin[f] = TRUE

\* C11: the computed holdings are >= 0 unless some Sell exceeded the
\* holdings available when it was applied; in that case the valuation still
\* completes and the position it returns carries an Inconsistent flag.
C11_OverSellFlagged ==
    \A r \in {vRefresh, vImport} :
        r.computed =>
            IF NoOverSell(vTxs)
            THEN ~Lt(r.coin.holdings, Zero) /\ IsFinite(r.coin.holdings)
            ELSE FlaggedInconsistent(r.coin)

OnlyBuys(transactions) ==
    /\ Len(transactions) > 0
    /\ \A i \in 1..Len(transactions) :
          transactions[i].type = "buy" /\ Gt(transactions[i].amount, Zero)

\* C12: for every non-empty sequence of Buys with positive amounts, in any
\* order, averageCost * holdings = investedCapital, in the valuation used on
\* refresh and in the one used on import.
C12_AverageCostOfBuys ==
    OnlyBuys(vTxs) =>
        \A r \in {vRefresh, vImport} :
            r.computed =>
                /\ Mul(r.coin.averageBuyPrice, r.coin.holdings)
                      = r.coin.totalInvestment
                /\ Gt(r.coin.holdings, Zero)
                /\ r.coin.averageBuyPrice
                      = Div(r.coin.totalInvestment, r.coin.holdings)

C12_Witness ==
    /\ OnlyBuys(vTxs)
    /\ Len(vTxs) = 3
    /\ vTxs[1].price # vTxs[2].price
    /\ vTxs[1].amount # vTxs[2].amount
    /\ vRefresh.computed
    /\ vImport.computed
    /\ vRefresh.coin.averageBuyPrice \notin {Num(10000), Num(12000)}

-----------------------------------------------------------------------------
(* More claims about the hook                                              *)

\* the totals of pf are those computed from its positions
TotalsFromPositions(pf) ==
    LET investment ==
            SumFrom([i \in 1..Len(pf.coins) |-> pf.coins[i].totalInvestment],
                    1, Zero)
        value ==
            SumFrom([i \in 1..Len(pf.coins) |-> pf.coins[i].currentValue],
                    1, Zero)
    IN  /\ pf.totalInvestment = investment
        /\ pf.totalValue = value
        /\ pf.totalProfitLoss = Sub(value, investment)
        /\ pf.totalProfitLossPercentage =
              IF Gt(investment, Zero)
              THEN Mul(Div(Sub(value, investment), investment), Num(100))
              ELSE Zero

\* C13: in the portfolio left in memory and in the persisted one, once the
\* calls made and the refreshes they started have completed, the totals are
\* the sums over the positions, totalProfitLoss = totalValue -
\* totalInvestment, and the percentage is computed from these aggregates.
C13_TotalsAreSums ==
    inflight = <<>> =>
        /\ TotalsFromPositions(portfolio)
        /\ TotalsFromPositions(Stored)

HoldingsFromTransactions(pf) ==
    \A i \in 1..Len(pf.coins) :
        pf.coins[i].holdings = calculateHoldings(pf.coins[i].transactions)

\* C14: after a mutating call and the refresh it triggers have completed,
\* every position in memory and in storage has holdings = buys - sells of
\* its transaction list, whatever the quote fetch returned.
C14_HoldingsRecomputed ==
    (inflight = <<>> /\ calls > 0) =>
        /\ HoldingsFromTransactions(portfolio)
        /\ HoldingsFromTransactions(Stored)

NoEmptyPosition(pf) ==
    \A i \in 1..Len(pf.coins) : Len(pf.coins[i].transactions) > 0

\* the transactions of the position coinId in pf; <<>> when there is none
TransactionsOf(pf, coinId) ==
    IF coinId \in CoinIdsOf(pf)
    THEN pf.coins[FindCoinIndex(pf.coins, coinId)].transactions
    ELSE <<>>

\* what deleteTransaction(coinId, transactionId) has to leave in pf, given
\* the transactions the position had before
DeletedFrom(before, pf, coinId, transactionId) ==
    LET rest == FilterSeq(before,
                    {i \in 1..Len(before) : before[i].id # transactionId}, 1)
    IN  IF rest = <<>>
        THEN coinId \notin CoinIdsOf(pf)
        ELSE coinId \in CoinIdsOf(pf) /\ TransactionsOf(pf, coinId) = rest

\* a step of deleteTransaction on a position held in memory
DeleteStepRemoves ==
    \A c \in CoinIds, t \in 0..(nextTxId - 1), eager \in BOOLEAN :
        (deleteTransaction(c, t, eager) /\ c \in CoinIdsOf(portfolio)) =>
            /\ DeletedFrom(TransactionsOf(portfolio, c), Stored', c, t)
            /\ DeletedFrom(TransactionsOf(portfolio, c), portfolio', c, t)

DefaultAttempts == 3

\* C16: with default arguments fetchWithRetry invokes the operation at most
\* three times in total; after a successful attempt it makes no further one.
C16_AtMostThreeAttempts ==
    \A p \in Callers : callers[p].attempts <= DefaultAttempts

-----------------------------------------------------------------------------
(* The list of top coins: lib/api.js, getTopCryptocurrencies, with          *)
(* fetchBinanceSymbols, getBinancePrice and enrichWithBinanceData.  A call  *)
(* runs to its await of the exchange's tickers, then to its await of the    *)
(* primary provider; what the two providers answer is an input of the step. *)
(* The answer of the primary provider stands for the outcome of             *)
(* fetchWithRetry around fetchCoinGeckoProxy: an array, or an error thrown. *)

\* ---- bounds of the specification
MaxTopCalls == 2
MaxTopTicks == 2

\* { ...object, ...extra }
Spread(object, extra) ==
    [f \in DOMAIN object \cup DOMAIN extra |->
        IF f \in DOMAIN extra THEN extra[f] ELSE object[f]]

\* array.slice(0, n)
Slice(array, n) ==
    SubSeq(array, 1, IF n < Len(array) THEN n ELSE Len(array))

NameOf(id) == IF id = "bitcoin" THEN "Bitcoin" ELSE "Ethereum"
GeckoImage(id) == "https://assets.coingecko.com/coins/images/" \o id \o ".png"

\* a record of coins/markets of the primary provider
GeckoCoin(id) ==
    [id |-> id, symbol |-> SymbolOf(id), name |-> NameOf(id),
     image |-> GeckoImage(id), current_price |-> Num(3),
     price_change_percentage_24h |-> Num(1)]

\* String.prototype.toUpperCase on the symbols that occur
ToUpperCase(str) ==
    IF str = "btc" THEN "BTC" ELSE IF str = "eth" THEN "ETH" ELSE str

\* parseFloat on the texts that occur; parseFloat(undefined) is NaN
ParseFloat(text) ==
    IF text = "5" THEN Num(5)
    ELSE IF text = "0.00" THEN Zero
    ELSE NaN

\* what the exchange answers to ticker/price: a status that is not ok, a
\* network error, or a body with the field price
BinancePriceOutcomes ==
    {[kind |-> "status"], [kind |-> "network"]}
    \cup {[kind |-> "ok", price |-> text] : text \in {"5", "0.00", "abc", Missing}}

\* getBinancePrice, lines 326-369: the price, or null
getBinancePrice(outcome) ==
    IF outcome.kind = "status" THEN Null
    ELSE IF outcome.kind = "network" THEN Null
    ELSE IF IsNaN(ParseFloat(outcome.price)) THEN Null
    ELSE ParseFloat(outcome.price)

Returned(value) == [threw |-> FALSE, value |-> value]
Thrown == [threw |-> TRUE]

\* a variant that fails when the exchange has no price
enrichWithBinanceDataOrThrow(coinGeckoData, outcome) ==
    IF coinGeckoData.symbol = Missing \/ getBinancePrice(outcome) = Null
    THEN Thrown
    ELSE Returned(Spread(coinGeckoData,
            [current_price |-> getBinancePrice(outcome),
             binance_symbol |-> ToUpperCase(coinGeckoData.symbol) \o "USDT",
             binance_price_available |-> TRUE]))

\* enrichWithBinanceData, lines 412-441; undefined.toUpperCase() throws
\* inside the try
enrichWithBinanceData(coinGeckoData, outcome) ==
    IF coinGeckoData.symbol = Missing THEN Returned(coinGeckoData)
    ELSE IF getBinancePrice(outcome) # Null
    THEN Returned(Spread(coinGeckoData,
            [current_price |-> getBinancePrice(outcome),
             binance_symbol |-> ToUpperCase(coinGeckoData.symbol) \o "USDT",
             binance_price_available |-> TRUE]))
    ELSE Returned(Spread(coinGeckoData, [binance_price_available |-> FALSE]))

\* ---- the exchange's tickers
Pair(symbol, volume) == [symbol |-> symbol, volume |-> volume]

\* symbol.endsWith("USDT") and symbol.replace("USDT", "")
EndsWithUSDT(symbol) == symbol \in {"BTCUSDT", "ETHUSDT"}
BaseSymbol(symbol) ==
    IF symbol = "BTCUSDT" THEN "BTC"
    ELSE IF symbol = "ETHUSDT" THEN "ETH"
    ELSE symbol

\* what fetchBinanceSymbols resolves to: null, or the tickers
BinanceTickers ==
    {[ok |-> FALSE, symbols |-> <<>>],
     [ok |-> TRUE, symbols |-> <<>>],
     [ok |-> TRUE, symbols |-> <<Pair("ETHBTC", 9), Pair("BTCUSDT", 5)>>],
     [ok |-> TRUE, symbols |-> <<Pair("BTCUSDT", 5), Pair("ETHUSDT", 7)>>]}

RECURSIVE SortByVolume(_)
\* pairs.sort((a, b) => b.volume - a.volume), a stable sort
SortByVolume(pairs) ==
    IF Len(pairs) <= 1 THEN pairs
    ELSE LET first == CHOOSE i \in 1..Len(pairs) :
                        /\ \A j \in 1..Len(pairs) :
                              pairs[j].volume <= pairs[i].volume
                        /\ \A j \in 1..(i - 1) :
                              pairs[j].volume < pairs[i].volume
         IN  <<pairs[first]>> \o SortByVolume(RemoveAt(pairs, first))

\* lines 471-488: the entry built from a pair of the exchange
BinanceTopEntry(pair, price) ==
    [id |-> ToLowerCase(BaseSymbol(pair.symbol)),
     symbol |-> ToLowerCase(BaseSymbol(pair.symbol)),
     name |-> BaseSymbol(pair.symbol),
     current_price |-> OrZero(price),
     price_change_percentage_24h |-> Zero,
     image |-> "https://cdn.jsdelivr.net/gh/atomiclabs/cryptocurrency-icons/"
                  \o ToLowerCase(BaseSymbol(pair.symbol)) \o ".png",
     binance_symbol |-> pair.symbol,
     binance_price_available |-> price # Null]

\* lines 464-491: the entries with a price, by volume
BinanceResults(symbols, prices, limit) ==
    LET usdt == FilterSeq(symbols,
                    {i \in 1..Len(symbols) : EndsWithUSDT(symbols[i].symbol)}, 1)
        usdtPairs == Slice(SortByVolume(usdt),
                           IF 100 < limit * 2 THEN 100 ELSE limit * 2)
        results == [i \in 1..Len(usdtPairs) |->
                      BinanceTopEntry(usdtPairs[i],
                          getBinancePrice(prices[usdtPairs[i].symbol]))]
    IN  FilterSeq(results,
            {i \in 1..Len(results) : results[i].binance_price_available}, 1)

\* what fetchWithRetry around fetchCoinGeckoProxy("coins/markets") ends
\* with: the error of the last attempt, or the array of the response
GeckoAnswers ==
    {[kind |-> "throws", coins |-> <<>>],
     [kind |-> "array", coins |-> <<>>],
     [kind |-> "array", coins |-> <<GeckoCoin("bitcoin")>>],
     [kind |-> "array",
      coins |-> <<GeckoCoin("bitcoin"), GeckoCoin("ethereum")>>],
     [kind |-> "array",
      coins |-> <<[GeckoCoin("ethereum") EXCEPT !.symbol = Missing]>>]}

TopLimits == {1, 2}
TopSteps == {60 * 1000, 60 * 60 * 1000}

\* the list an earlier call has put into the cache
EarlierTopCoins ==
    [hasData |-> TRUE,
     data |-> <<Spread(GeckoCoin("bitcoin"),
                       [binance_price_available |-> FALSE])>>,
     timestamp |-> Now0, askedFor |-> 1]

TopInit ==
    /\ DetailsIdle
    /\ RetryIdle
    /\ ValIdle
    /\ HookIdle
    /\ ImportIdle
    /\ FetchIdle
    /\ now = Now0 + 60 * 1000
    /\ ticks = 0
    /\ isProduction = FALSE
    /\ limiter = [client |-> NoCounts, proxy |-> NoCounts]
    /\ timers = EmptyBag
    /\ rejected = EmptyBag
    /\ callLog = <<>>
    /\ issued = [requests |-> 0, answers429 |-> 0]
    /\ topCoins \in {NoTopCoins, EarlierTopCoins}
    /\ top = IdleTop

\* the call returns
TopReturns(result, from, gecko, enriched) ==
    top' = [top EXCEPT !.pc = "done", !.result = result, !.from = from,
                       !.gecko = gecko, !.enriched = enriched]

\* lines 526-536 and 551-566: the expired list of the cache, or []
StaleOrEmpty(gecko) ==
    IF topCoins.hasData
    THEN TopReturns(Slice(topCoins.data, top.limit), "stale", gecko, <<>>)
    ELSE TopReturns(<<>>, "none", gecko, <<>>)

\* getTopCryptocurrencies(limit), lines 448-459, to its first await
getTopCryptocurrencies(limit) ==
    /\ top.pc \in {"idle", "done"}
    /\ top.calls < MaxTopCalls
    /\ IF topCoins.hasData /\ now - topCoins.timestamp < CACHE_EXPIRY
       THEN top' = [IdleTop EXCEPT
                       !.pc = "done", !.calls = top.calls + 1,
                       !.limit = limit, !.startedAt = now,
                       !.result = Slice(topCoins.data, limit),
                       !.from = "cache",
                       !.age = now - topCoins.timestamp]
       ELSE top' = [IdleTop EXCEPT
                       !.pc = "binance", !.calls = top.calls + 1,
                       !.limit = limit, !.startedAt = now,
                       !.age = now - topCoins.timestamp]
    /\ UNCHANGED <<topCoins, valVars, detailVars, retryVars, hookVars, impVars, rateVars, fetchVars>>

\* lines 460-511: the exchange has answered
fetchBinanceSymbolsAnswers(tickers, prices) ==
    /\ top.pc = "binance"
    /\ IF tickers.ok /\ Len(tickers.symbols) > 0
          /\ Len(BinanceResults(tickers.symbols, prices, top.limit)) >= top.limit
       THEN /\ topCoins' =
                  [hasData |-> TRUE,
                   data |-> BinanceResults(tickers.symbols, prices, top.limit),
                   timestamp |-> top.startedAt, askedFor |-> top.limit]
            /\ TopReturns(Slice(topCoins'.data, top.limit), "binance",
                          "none", <<>>)
       ELSE /\ top' = [top EXCEPT !.pc = "gecko"]
            /\ UNCHANGED topCoins
    /\ UNCHANGED <<valVars, detailVars, retryVars, hookVars, impVars, rateVars, fetchVars>>

\* lines 543-545: Promise.all of the enrichments of the response
EnrichAll(coins, outcomes) ==
    [i \in 1..Len(coins) |-> enrichWithBinanceData(coins[i], outcomes[i])]

EnrichLog(coins, outcomes) ==
    [i \in 1..Len(coins) |->
        [input |-> coins[i], outcome |-> outcomes[i],
         output |-> enrichWithBinanceData(coins[i], outcomes[i])]]

\* lines 513-566: the primary provider has answered, or fetchWithRetry
\* has given up
fetchWithRetryEnds(answer, outcomes) ==
    /\ top.pc = "gecko"
    /\ IF answer.kind = "throws"
       THEN StaleOrEmpty(answer.kind) /\ UNCHANGED topCoins
       ELSE IF Len(answer.coins) = 0
       THEN StaleOrEmpty(answer.kind) /\ UNCHANGED topCoins
       ELSE IF \E i \in 1..Len(answer.coins) :
                    EnrichAll(answer.coins, outcomes)[i].threw
       THEN /\ UNCHANGED topCoins
            /\ IF topCoins.hasData
               THEN TopReturns(Slice(topCoins.data, top.limit), "stale",
                               answer.kind, EnrichLog(answer.coins, outcomes))
               ELSE TopReturns(<<>>, "none", answer.kind,
                               EnrichLog(answer.coins, outcomes))
       ELSE /\ topCoins' =
                  [hasData |-> TRUE,
                   data |-> [i \in 1..Len(answer.coins) |->
                               EnrichAll(answer.coins, outcomes)[i].value],
                   timestamp |-> top.startedAt, askedFor |-> top.limit]
            /\ TopReturns(Slice(topCoins'.data, top.limit), "gecko",
                          answer.kind, EnrichLog(answer.coins, outcomes))
    /\ UNCHANGED <<valVars, detailVars, retryVars, hookVars, impVars, rateVars, fetchVars>>

TopTimePasses ==
    /\ ticks < MaxTopTicks
    /\ ticks' = ticks + 1
    /\ \E d \in TopSteps : now' = now + d
    /\ UNCHANGED <<isProduction, limiter, timers, rejected, callLog, issued>>
    /\ UNCHANGED <<valVars, detailVars, retryVars, topVars, hookVars, impVars, fetchVars>>

TopNext ==
    \/ \E limit \in TopLimits : getTopCryptocurrencies(limit)
    \/ \E tickers \in BinanceTickers,
          prices \in [{"BTCUSDT", "ETHUSDT"} -> BinancePriceOutcomes] :
          fetchBinanceSymbolsAnswers(tickers, prices)
    \/ \E answer \in GeckoAnswers :
          \E outcomes \in [1..Len(answer.coins) -> BinancePriceOutcomes] :
             fetchWithRetryEnds(answer, outcomes)
    \/ TopTimePasses

SpecTop == TopInit /\ [][TopNext]_vars

-----------------------------------------------------------------------------
(* Claims about the list of top coins and the enrichment                   *)

\* C17: a read of the cache returns an entry only while its age is below
\* the TTL, and expired data is returned only after a live fetch attempt
\* for the request has failed: never after a successful response of the
\* provider, be it an empty one.
C17_StaleOnlyAfterFailure ==
    top.pc = "done" =>
        /\ top.from = "cache" => top.age < CACHE_EXPIRY
        /\ top.from = "stale" => top.gecko = "throws"

\* the quote carries a mark that it is stale
MarkedAsStale(quote) ==
    \E f \in {"stale", "isStale", "_stale", "_fromStaleCache"} :
        f \in DOMAIN quote /\ quote[f] = TRUE

\* C18: whichever provider fails, getTopCryptocurrencies ends with fresh
\* data, with data marked as stale, or with an empty value; it raises
\* nothing and returns no expired data without a mark.
C18_FreshMarkedStaleOrEmpty ==
    (top.pc = "done" /\ top.gecko # "array") =>
        \/ top.result = <<>>
        \/ top.from \in {"cache", "binance", "gecko"}
              /\ (top.from = "cache" => top.age < CACHE_EXPIRY)
        \/ top.from = "stale"
              /\ \A i \in 1..Len(top.result) : MarkedAsStale(top.result[i])

\* the price the exchange gave, if it gave one
QuotedTexts == {"5", "0.00"}
QuotedPrice(outcome) == IF outcome.price = "5" THEN Num(5) ELSE Zero
PriceQuoted(outcome) == outcome.kind = "ok" /\ outcome.price \in QuotedTexts

\* C19: for every answer of the exchange, enriching a record of the primary
\* provider returns a record and raises nothing; its current price is the
\* exchange's price when there is one, the primary provider's otherwise.
C19_EnrichmentNeverFails ==
    \A i \in 1..Len(top.enriched) :
        LET e == top.enriched[i]
        IN  /\ ~e.output.threw
            /\ e.output.value.current_price =
                  IF PriceQuoted(e.outcome) /\ e.input.symbol # Missing
                  THEN QuotedPrice(e.outcome)
                  ELSE e.input.current_price

C19_Witness ==
    /\ top.pc = "done"
    /\ Len(top.enriched) = 2
    /\ top.enriched[1].outcome = [kind |-> "ok", price |-> "5"]
    /\ top.enriched[1].output.value.current_price = Num(5)
    /\ top.enriched[2].outcome = [kind |-> "ok", price |-> "abc"]
    /\ top.enriched[2].output.value.current_price = Num(3)
    /\ top.from = "gecko"

\* id, name and icon are those of a record of the primary provider
FromPrimaryProvider(quote) ==
    \E id \in CoinIds :
        /\ quote.id = id
        /\ quote.name = NameOf(id)
        /\ quote.image = GeckoImage(id)

\* C20: in every quote returned by the top-quotes operation, id, name and
\* icon are those of a record of the primary provider; the exchange only
\* supplies the current price.
C20_MetadataFromPrimary ==
    top.pc = "done" =>
        \A i \in 1..Len(top.result) : FromPrimaryProvider(top.result[i])

-----------------------------------------------------------------------------
(* The details of one coin: lib/api.js, getCryptocurrencyDetails, with      *)
(* fetchCoinGeckoProxy, rateLimitedRequest, enrichWithBinanceData and       *)
(* getBinancePrice and, in a production build, the proxy route GET.  Every  *)
(* caller asks for its own coin, none of them in a cache, and the limiters' *)
(* budgets are not used up.  What a provider will do with a request (answer *)
(* it, with which status, or never answer) is fixed when the request is     *)
(* sent.  A timer exists only where the code sets one.                      *)

\* proxy route, line 161: setTimeout(() => controller.abort(), 15000)
AbortTimeoutMs == 15000

PrimaryFates == {"ok", "500", "429", "silent"}
SecondaryFates == {"ok", "500", "silent"}

\* fetchCoinGeckoProxy, lines 263-279: the fetcher sends its request; in a
\* production build the proxy route forwards it and arms its abort timer
\* (proxy route, lines 160-166); axios.get is given no timeout
RequestSent(d, kind, fate) ==
    [d EXCEPT !.pc = "primary", !.kind = kind, !.primary = fate,
              !.due = IF isProduction THEN now + AbortTimeoutMs ELSE 0]

\* lines 817-851 and 412-418: the data is used and the exchange is asked
\* for its price by getBinancePrice, whose fetch is given no timeout
Enriching(d, fate) == [d EXCEPT !.pc = "secondary", !.secondary = fate]

\* lines 852-855
DetailsThrown(d) == [d EXCEPT !.pc = "done", !.result = "thrown"]

\* proxy route, lines 174-214 and 279-311: the status the route answers with
ProxyStatus(d, answer) ==
    IF answer = "ok" THEN 200
    ELSE IF answer = "500" THEN 500
    ELSE IF d.staleCopy THEN 200
    ELSE IF answer = "429" THEN 429
    ELSE 504

DirectStatus(answer) ==
    IF answer = "ok" THEN 200 ELSE IF answer = "429" THEN 429 ELSE 500

\* rateLimitedRequest, lines 191-210, fetchCoinGeckoProxy, lines 297-318
AfterStatus(d, status, fate) ==
    IF status = 200 THEN Enriching(d, fate)
    ELSE IF status = 429 /\ d.kind = "first"
    THEN [d EXCEPT !.pc = "cooling", !.due = now + MinuteMs]
    ELSE DetailsThrown(d)

DetailsBecome(p, d) ==
    /\ details' = [details EXCEPT ![p] = d]
    /\ UNCHANGED <<valVars, hookVars, impVars, rateVars, fetchVars, topVars,
                   retryVars>>

\* getCryptocurrencyDetails(coinId), lines 810-815, to its await
getCryptocurrencyDetails(p, fate) ==
    /\ details[p].pc = "idle"
    /\ DetailsBecome(p, RequestSent(details[p], "first", fate))

\* the primary provider answers, before the abort timer if there is one
primaryAnswers(p, fate) ==
    /\ details[p].pc = "primary"
    /\ details[p].primary # "silent"
    /\ isProduction => now < details[p].due
    /\ DetailsBecome(p,
          AfterStatus(details[p],
                      IF isProduction
                      THEN ProxyStatus(details[p], details[p].primary)
                      ELSE DirectStatus(details[p].primary),
                      fate))

\* proxy route, lines 161 and 279-311: the abort timer fires
proxyAborts(p, fate) ==
    /\ isProduction
    /\ details[p].pc = "primary"
    /\ details[p].due <= now
    /\ DetailsBecome(p,
          AfterStatus(details[p], ProxyStatus(details[p], "silent"), fate))

\* rateLimitedRequest, lines 197-207: the cooling period is over
coolingOver(p, fate) ==
    /\ details[p].pc = "cooling"
    /\ details[p].due <= now
    /\ DetailsBecome(p, RequestSent(details[p], "retry", fate))

\* getBinancePrice, lines 339-368, and enrichWithBinanceData, lines 420-436
binanceAnswers(p) ==
    /\ details[p].pc = "secondary"
    /\ details[p].secondary # "silent"
    /\ DetailsBecome(p,
          [details[p] EXCEPT
              !.pc = "done",
              !.result = IF details[p].secondary = "ok" THEN "enriched"
                         ELSE "plain"])

HasTimer(p) ==
    \/ details[p].pc = "cooling"
    \/ details[p].pc = "primary" /\ isProduction

\* time passes up to the next timer
DetailsTimePass ==
    /\ \E q \in Callers :
          /\ HasTimer(q)
          /\ details[q].due > now
          /\ \A r \in Callers : HasTimer(r) => details[r].due >= details[q].due
          /\ now' = details[q].due
    /\ UNCHANGED <<ticks, isProduction, limiter, timers, rejected, callLog,
                   issued>>
    /\ UNCHANGED <<valVars, hookVars, impVars, fetchVars, topVars, detailVars,
                   retryVars>>

DetailsInit ==
    /\ RetryIdle
    /\ ValIdle
    /\ HookIdle
    /\ ImportIdle
    /\ FetchIdle
    /\ TopIdle
    /\ now = Now0
    /\ ticks = 0
    /\ isProduction \in BOOLEAN
    /\ limiter = [client |-> NoCounts, proxy |-> NoCounts]
    /\ timers = EmptyBag
    /\ rejected = EmptyBag
    /\ callLog = <<>>
    /\ issued = [requests |-> 0, answers429 |-> 0]
    \* the proxy route may hold a stale copy of a coin's details
    /\ details \in [Callers -> {[IdleDetails EXCEPT !.staleCopy = b] :
                                   b \in IF isProduction THEN BOOLEAN
                                         ELSE {FALSE}}]

DetailsNext ==
    \/ \E p \in Callers, fate \in PrimaryFates :
          getCryptocurrencyDetails(p, fate)
    \/ \E p \in Callers, fate \in SecondaryFates : primaryAnswers(p, fate)
    \/ \E p \in Callers, fate \in SecondaryFates : proxyAborts(p, fate)
    \/ \E p \in Callers, fate \in PrimaryFates : coolingOver(p, fate)
    \/ \E p \in Callers : binanceAnswers(p)
    \/ DetailsTimePass

\* every response that will come does come, every timer that is due fires,
\* and time passes
DetailsFairness ==
    /\ \A p \in Callers :
          /\ WF_vars(\E fate \in SecondaryFates : primaryAnswers(p, fate))
          /\ WF_vars(\E fate \in SecondaryFates : proxyAborts(p, fate))
          /\ WF_vars(\E fate \in PrimaryFates : coolingOver(p, fate))
          /\ WF_vars(binanceAnswers(p))
    /\ WF_vars(DetailsTimePass)

SpecDetails == DetailsInit /\ [][DetailsNext]_vars /\ DetailsFairness

-----------------------------------------------------------------------------
(* Claims about the details of a coin                                       *)

\* C21: every call to a provider is bounded by a timeout, so that a call of
\* getCryptocurrencyDetails whose provider never answers still completes:
\* a call that has sent a request to the primary or to the secondary
\* provider eventually returns or throws.
C21_EveryCallCompletes ==
    \A p \in Callers :
        (details[p].pc \in {"primary", "secondary"})
            ~> (details[p].pc = "done")

-----------------------------------------------------------------------------
(* The retry executor: lib/api.js, fetchWithRetry.  An operation of the      *)
(* module calls it with a fetcher and, as getHistoricalPriceData does, with  *)
(* a key, or, as the other operations do, without one.  All keyed calls have *)
(* the same key.  An invocation runs to its next await as one step: to the   *)
(* wait of line 114, to the call of the fetcher (line 124), to the wait of   *)
(* line 137.  A promise is named by the invocation whose fetchPromise it is; *)
(* a promise resolved with another promise follows it, and its state is      *)
(* found by following the chain.  Time never passes a pending timer.         *)

NoKey == "none"
TheKey == "historical_batch"

\* lines 78-79 and 1074-1075
DefaultDelay == 1000
\* line 93
DebounceMs == 2000
\* lines 107, 110 and 112
GlobalGapMs == 200
GlobalBurst == 10
MaxWaitDelay == 3000
\* line 144
GraceMs == 500

\* ---- bounds of the specification
MaxRetryCalls == 2
MaxRetryFailures == 4
MaxRetryTicks == 1
RetrySteps == {300, 2000}

PromiseOf(i) == [promise |-> i, value |-> 0]
ValueOf(v) == [promise |-> 0, value |-> v]

Unsettled == [kind |-> "pending", value |-> 0, ref |-> ValueOf(0)]
Fulfilled(v) == [kind |-> "fulfilled", value |-> v, ref |-> ValueOf(0)]
Rejected(i) == [kind |-> "rejected", value |-> i, ref |-> ValueOf(0)]
Follows(ref) == [kind |-> "follows", value |-> 0, ref |-> ref]

\* the state of the promise the caller holds: a value settles at once, a
\* promise that follows itself never settles
RECURSIVE StateOf(_, _, _)
StateOf(fs, ref, seen) ==
    IF ref.promise = 0 THEN Fulfilled(ref.value)
    ELSE IF ref.promise \in seen THEN Unsettled
    ELSE IF fs[ref.promise].outcome.kind = "follows"
    THEN StateOf(fs, fs[ref.promise].outcome.ref, seen \cup {ref.promise})
    ELSE fs[ref.promise].outcome

Frame(key, retries, delay, parent, pc, due) ==
    [key |-> key, retries |-> retries, delay |-> delay, parent |-> parent,
     pc |-> pc, due |-> due, error |-> "none", outcome |-> Unsettled]

Min(a, b) == IF a < b THEN a ELSE b

\* lines 106-153: the invocation counts itself, waits if the burst is too
\* large, else calls the fetcher and puts its promise into the map
Proceed(C, fs, key, retries, delay, parent) ==
    IF now - C.lastGlobalRequestTime < GlobalGapMs
    THEN IF C.globalRequestCount + 1 > GlobalBurst
         THEN [cache |-> [C EXCEPT !.globalRequestCount = @ + 1],
               frames |->
                   Append(fs, Frame(key, retries, delay, parent, "throttled",
                                    now + Min((delay * (C.globalRequestCount + 1))
                                                  \div 5,
                                              MaxWaitDelay))),
               ref |-> PromiseOf(Len(fs) + 1)]
         ELSE [cache |-> [C EXCEPT
                            !.globalRequestCount = @ + 1,
                            !.pendingRequests =
                                IF key # NoKey THEN <<Len(fs) + 1>> ELSE @],
               frames |->
                   Append(fs, Frame(key, retries, delay, parent, "fetching", 0)),
               ref |-> PromiseOf(Len(fs) + 1)]
    ELSE [cache |-> [C EXCEPT
                       !.lastGlobalRequestTime = now,
                       !.globalRequestCount = 0,
                       !.pendingRequests =
                           IF key # NoKey THEN <<Len(fs) + 1>> ELSE @],
          frames |->
              Append(fs, Frame(key, retries, delay, parent, "fetching", 0)),
          ref |-> PromiseOf(Len(fs) + 1)]

\* fetchWithRetry(fetcher, retries, delay, cacheKey), lines 76-153, to its
\* first await: the new cache, the new invocations, and what is returned
fetchWithRetry(C, fs, key, retries, delay, parent) ==
    IF key # NoKey /\ C.pendingRequests # <<>>
    THEN [cache |-> C, frames |-> fs, ref |-> PromiseOf(C.pendingRequests[1])]
    ELSE IF /\ key # NoKey
            /\ C.lastRequestTime # <<>>
            /\ now - C.lastRequestTime[1] < DebounceMs
            /\ C.lastResults # <<>>
    THEN [cache |-> C, frames |-> fs, ref |-> ValueOf(C.lastResults[1])]
    ELSE Proceed(IF key # NoKey THEN [C EXCEPT !.lastRequestTime = <<now>>]
                 ELSE C,
                 fs, key, retries, delay, parent)

\* lines 139-145: the finally block sets the removal timer
Finally(i) ==
    IF frames[i].key # NoKey
    THEN retryTimers \cup {[due |-> now + GraceMs, by |-> i]}
    ELSE retryTimers

RetryOthers ==
    UNCHANGED <<valVars, hookVars, impVars, rateVars, fetchVars, topVars,
                detailVars>>

\* an operation calls fetchWithRetry
operationCalls(key) ==
    /\ Len(retryCalls) < MaxRetryCalls
    /\ retryCache' =
          fetchWithRetry(retryCache, frames, key, DefaultAttempts,
                         DefaultDelay, 0).cache
    /\ frames' =
          fetchWithRetry(retryCache, frames, key, DefaultAttempts,
                         DefaultDelay, 0).frames
    /\ retryCalls' =
          Append(retryCalls,
                 [key |-> key,
                  ref |-> fetchWithRetry(retryCache, frames, key,
                                         DefaultAttempts, DefaultDelay, 0).ref,
                  own |-> Len(frames') > Len(frames),
                  busy |-> \E i \in 1..Len(frames) :
                              /\ key # NoKey
                              /\ frames[i].key = key
                              /\ frames[i].pc \in {"throttled", "fetching"}])
    /\ UNCHANGED <<retryTimers, retryFailures>>
    /\ RetryOthers

\* lines 114-124 and 149-151: the wait is over, the fetcher is called
throttleOver(i) ==
    /\ i <= Len(frames)
    /\ frames[i].pc = "throttled"
    /\ frames[i].due <= now
    /\ frames' = [frames EXCEPT ![i].pc = "fetching", ![i].due = 0]
    /\ retryCache' =
          [retryCache EXCEPT
              !.globalRequestCount = 0,
              !.pendingRequests = IF frames[i].key # NoKey THEN <<i>> ELSE @]
    /\ UNCHANGED <<retryCalls, retryTimers, retryFailures>>
    /\ RetryOthers

\* lines 124-129 and 139-145: the fetcher has returned a result
fetcherReturns(i) ==
    /\ i <= Len(frames)
    /\ frames[i].pc = "fetching"
    /\ frames' = [frames EXCEPT ![i].pc = "returned",
                                ![i].outcome = Fulfilled(i)]
    /\ retryCache' =
          [retryCache EXCEPT
              !.lastResults = IF frames[i].key # NoKey THEN <<i>> ELSE @]
    /\ retryTimers' = Finally(i)
    /\ UNCHANGED <<retryCalls, retryFailures>>
    /\ RetryOthers

\* lines 130-137 and 139-145: the fetcher has thrown; Math.random() is 0
fetcherThrows(i, error) ==
    /\ i <= Len(frames)
    /\ frames[i].pc = "fetching"
    /\ retryFailures < MaxRetryFailures
    /\ retryFailures' = retryFailures + 1
    /\ IF frames[i].retries <= 0
       THEN /\ frames' = [frames EXCEPT ![i].pc = "returned",
                                        ![i].error = error,
                                        ![i].outcome = Rejected(i)]
            /\ retryTimers' = Finally(i)
       ELSE /\ frames' =
                  [frames EXCEPT
                      ![i].pc = "backoff",
                      ![i].error = error,
                      ![i].due = now + frames[i].delay]
            /\ UNCHANGED retryTimers
    /\ UNCHANGED <<retryCalls, retryCache>>
    /\ RetryOthers

\* lines 137-145: the backoff is over, fetchWithRetry calls itself and
\* returns the promise it gets
backoffOver(i) ==
    /\ i <= Len(frames)
    /\ frames[i].pc = "backoff"
    /\ frames[i].due <= now
    /\ retryCache' =
          fetchWithRetry(retryCache, frames, frames[i].key,
                         frames[i].retries - 1, (frames[i].delay * 3) \div 2,
                         i).cache
    /\ frames' =
          [fetchWithRetry(retryCache, frames, frames[i].key,
                          frames[i].retries - 1, (frames[i].delay * 3) \div 2,
                          i).frames
              EXCEPT ![i].pc = "returned",
                     ![i].due = 0,
                     ![i].error = "none",
                     ![i].outcome =
                         Follows(fetchWithRetry(retryCache, frames,
                                                frames[i].key,
                                                frames[i].retries - 1,
                                                (frames[i].delay * 3) \div 2,
                                                i).ref)]
    /\ retryTimers' = Finally(i)
    /\ UNCHANGED <<retryCalls, retryFailures>>
    /\ RetryOthers

\* lines 142-144: a removal timer fires
removalTimerFires ==
    /\ \E t \in retryTimers :
          /\ t.due <= now
          /\ retryTimers' = retryTimers \ {t}
    /\ retryCache' = [retryCache EXCEPT !.pendingRequests = <<>>]
    /\ UNCHANGED <<retryCalls, frames, retryFailures>>
    /\ RetryOthers

\* the due times of the pending timers
RetryDues ==
    {frames[i].due : i \in {j \in 1..Len(frames) :
                               frames[j].pc \in {"throttled", "backoff"}}}
        \cup {t.due : t \in retryTimers}

\* time passes up to the next timer
RetryTimerDue ==
    /\ RetryDues # {}
    /\ \A d \in RetryDues : d > now
    /\ \E d \in RetryDues : (\A e \in RetryDues : d <= e) /\ now' = d
    /\ UNCHANGED <<ticks, isProduction, limiter, timers, rejected, callLog,
                   issued>>
    /\ UNCHANGED <<valVars, hookVars, impVars, fetchVars, topVars, detailVars,
                   retryVars>>

\* time passes while nothing is due
RetryTimePasses ==
    /\ ticks < MaxRetryTicks
    /\ ticks' = ticks + 1
    /\ \E d \in RetrySteps :
          /\ \A e \in RetryDues : now + d <= e
          /\ now' = now + d
    /\ UNCHANGED <<isProduction, limiter, timers, rejected, callLog, issued>>
    /\ UNCHANGED <<valVars, hookVars, impVars, fetchVars, topVars, detailVars,
                   retryVars>>

\* nothing was requested yet, or ten requests were made in the last 200 ms
\* by operations that have their results
RetryInit ==
    /\ ValIdle
    /\ HookIdle
    /\ ImportIdle
    /\ FetchIdle
    /\ TopIdle
    /\ DetailsIdle
    /\ now = Now0
    /\ ticks = 0
    /\ isProduction = FALSE
    /\ limiter = [client |-> NoCounts, proxy |-> NoCounts]
    /\ timers = EmptyBag
    /\ rejected = EmptyBag
    /\ callLog = <<>>
    /\ issued = [requests |-> 0, answers429 |-> 0]
    /\ retryCalls = <<>>
    /\ frames = <<>>
    /\ retryCache \in
          {NoRetryCache,
           [NoRetryCache EXCEPT !.globalRequestCount = GlobalBurst,
                                !.lastGlobalRequestTime = Now0]}
    /\ retryTimers = {}
    /\ retryFailures = 0

MaxFrames == MaxRetryCalls + MaxRetryFailures

FetcherErrors == {"500", "404"}

RetryNext ==
    \/ \E key \in {NoKey, TheKey} : operationCalls(key)
    \/ \E i \in 1..MaxFrames : throttleOver(i)
    \/ \E i \in 1..MaxFrames : fetcherReturns(i)
    \/ \E i \in 1..MaxFrames, error \in FetcherErrors :
          fetcherThrows(i, error)
    \/ \E i \in 1..MaxFrames : backoffOver(i)
    \/ removalTimerFires
    \/ RetryTimerDue
    \/ RetryTimePasses

SpecRetry == RetryInit /\ [][RetryNext]_vars

\* every invocation of the fetcher settles, every timer that is due fires,
\* and time passes up to the next timer
RetryFairness ==
    /\ \A i \in 1..MaxFrames :
          /\ WF_vars(throttleOver(i))
          /\ WF_vars(fetcherReturns(i))
          /\ WF_vars(backoffOver(i))
    /\ WF_vars(removalTimerFires)
    /\ WF_vars(RetryTimerDue)

SpecRetryFair == SpecRetry /\ RetryFairness

-----------------------------------------------------------------------------
(* Claims about the retry executor                                          *)

Settled(c) ==
    /\ Len(retryCalls) >= c
    /\ StateOf(frames, retryCalls[c].ref, {}).kind \in {"fulfilled", "rejected"}

\* C22: every call of fetchWithRetry eventually settles, given that every
\* invocation of the fetcher settles: the promise the caller holds is
\* fulfilled with a result or rejected, for calls without a key and for
\* calls with one, also when an attempt fails and is retried.
C22_EveryCallSettles ==
    \A c \in 1..MaxRetryCalls : (Len(retryCalls) >= c) ~> Settled(c)

KeyedFetching ==
    {i \in 1..Len(frames) :
        frames[i].key = TheKey /\ frames[i].pc = "fetching"}

\* C23: while a call with the key is under way (from its start until its
\* fetcher has settled), every further call with the key gets that call's
\* promise and invokes no fetcher of its own, and at most one fetcher for the
\* key is outstanding.
C23_KeyedCallsCoalesce ==
    /\ Cardinality(KeyedFetching) <= 1
    /\ \A c \in 1..Len(retryCalls) :
          retryCalls[c].busy =>
              /\ ~retryCalls[c].own
              /\ retryCalls[c].ref.promise # 0
              /\ frames[retryCalls[c].ref.promise].key = TheKey

\* C24: the entry an invocation puts into pendingRequests stays there while
\* its fetcher is outstanding (no timer of an earlier invocation removes it),
\* an entry whose invocation has returned has a removal timer that fires
\* within 500 ms, and the map is empty once every invocation has returned and
\* every timer has fired.
C24_EntryKeptUntilDone ==
    /\ \A i \in KeyedFetching : retryCache.pendingRequests = <<i>>
    /\ \A i \in 1..Len(frames) :
          (frames[i].pc = "returned" /\ retryCache.pendingRequests = <<i>>)
              => \E t \in retryTimers : t.by = i /\ t.due <= now + GraceMs
    /\ ((\A i \in 1..Len(frames) : frames[i].pc = "returned")
            /\ retryTimers = {})
           => retryCache.pendingRequests = <<>>

\* C26: an attempt that fails with a 4xx status other than 429 is not
\* retried: the error is raised to the caller at once, no backoff follows.
C26_ClientErrorNotRetried ==
    \A i \in 1..Len(frames) :
        frames[i].error = "404" =>
            frames[i].pc = "returned" /\ frames[i].outcome.kind = "rejected"

-----------------------------------------------------------------------------
(* More claims about the limiters                                           *)

\* the limiter in front of the provider
ProviderLimiter == IF isProduction THEN limiter.proxy ELSE limiter.client

\* a 429 was answered (its cooling timer, set for a minute later, is
\* pending) within the limiter's current window, and that window is not over
WindowOf429Open ==
    \E t \in BagToSet(timers) :
        /\ t.who = "cooling"
        /\ ProviderLimiter.requestResetTime <= t.due - MinuteMs
        /\ now < ProviderLimiter.requestResetTime + MinuteMs

\* C25: after the provider has answered 429, no call is made to it by any
\* caller before the rest of the limiter's current 60-second window has
\* passed, whatever the request counter says.
C25_NoCallDuringCooldown ==
    [][WindowOf429Open => Len(callLog') <= Len(callLog)]_vars

-----------------------------------------------------------------------------
(* More claims about import                                                 *)

DistinctIds(pf) ==
    \A i, j \in 1..Len(pf.coins) :
        i # j => pf.coins[i].id # pf.coins[j].id

\* C28: positions are keyed by coin id: no two positions of the portfolio,
\* in the hook's state or in storage, have the same id, whatever file was
\* imported and whatever the providers returned.
C28_PositionsKeyedById == DistinctIds(portfolio) /\ DistinctIds(Stored)

-----------------------------------------------------------------------------
(* The two valuations compared                                             *)

ValuationFigures(coin) ==
    <<coin.holdings, coin.totalInvestment, coin.averageBuyPrice,
      coin.currentValue, coin.profitLoss, coin.profitLossPercentage>>

\* C29: the valuation computed on import (processPortfolioData) and the one
\* computed on refresh (updatePortfolioCoin) give the same holdings,
\* totalInvestment, averageBuyPrice, currentValue, profitLoss and
\* profitLossPercentage for every transaction list and current price; here
\* for the lists that never sell more than is held.
C29_ValuationsAgree ==
    (NoOverSell(vTxs) /\ vRefresh.computed /\ vImport.computed) =>
        ValuationFigures(vImport.coin) = ValuationFigures(vRefresh.coin)


-----------------------------------------------------------------------------
(* More claims about the list of top coins                                  *)

\* the coins the primary provider lists, by market capitalisation; the
\* response to per_page = n (line 519) is the first n of them
GeckoMarket == <<GeckoCoin("bitcoin"), GeckoCoin("ethereum")>>

IdsOf(coins) == [i \in 1..Len(coins) |-> coins[i].id]

\* the cache was filled in this behaviour, from the page of GeckoMarket
\* its call had asked for
FilledFromMarket ==
    /\ topCoins.hasData
    /\ topCoins.timestamp > Now0
    /\ IdsOf(topCoins.data) = IdsOf(Slice(GeckoMarket, Min(100, topCoins.askedFor)))

\* C30: a call served from the cache returns min(limit, number of coins the
\* provider lists) entries, whatever limit the call that filled the cache
\* had passed
C30_ResultIndependentOfEarlierLimits ==
    (top.pc = "done" /\ top.from = "cache" /\ FilledFromMarket)
        => Len(top.result) = Min(top.limit, Len(GeckoMarket))

\* C30, second half: no call returns more than limit entries
C30_NeverMoreThanLimit ==
    top.pc = "done" => Len(top.result) <= top.limit


-----------------------------------------------------------------------------
(* More claims about the proxy route's cache                                *)

\* the cacheTTL of the route's endpoints, in seconds (lines 110-121)
CacheTTLs == {300, 1800, 3600, 600}

====
